---- MODULE Spec2Model ----
(***************************************************************************)
(* A model of currentz: the recurrence expander (internal/service/         *)
(* recurring.go) and the forecast service built on it.                     *)
(*                                                                         *)
(* Dates are calendar days, written as the number of days since            *)
(* 1970-01-01 (UTC); every time.Time the expander handles is a UTC         *)
(* midnight (pgtype.Date values and windows truncated to 24h).             *)
(***************************************************************************)
EXTENDS Integers, Sequences, FiniteSets, TLC

VARIABLES
    series,     \* the Recurring row handed to expandOne
    winA,       \* first day of the window
    winB,       \* last day of the left sub-window (the right one starts at winB + 1)
    winC,       \* last day of the window
    outAC,      \* expandOne(series, winA, winC)
    outAB,      \* expandOne(series, winA, winB)
    outBC,      \* expandOne(series, winB + 1, winC)
    phase,      \* "input" before the expansion, "expanded" after it
    transactions,   \* the rows of table transactions, in insertion order
    recurrings,     \* the rows of table recurring_transactions, in insertion order
    setting,        \* the starting_balance row of table settings, if any
    nextID,         \* the next SERIAL id of each table
    today,          \* the UTC day of time.Now()
    resp,           \* what the last request returned
    req             \* the request in flight: where it stands and what it has read

expandVars == <<series, winA, winB, winC, outAC, outAB, outBC, phase>>
storeVars == <<transactions, recurrings, setting, nextID, today>>
vars == <<expandVars, storeVars, resp, req>>

\* No request is in flight.
NoRequest == [op |-> "none"]

(***************************************************************************)
(* The Go time package, as far as the expander uses it.                    *)
(***************************************************************************)

\* Days since 1970-01-01 of the proleptic Gregorian date y-m-d, 1 <= m <= 12.
DaysFromCivil(y, m, d) ==
    LET yy  == IF m <= 2 THEN y - 1 ELSE y
        era == yy \div 400
        yoe == yy - era * 400
        mp  == IF m > 2 THEN m - 3 ELSE m + 9
        doy == (153 * mp + 2) \div 5 + d - 1
        doe == yoe * 365 + yoe \div 4 - yoe \div 100 + doy
    IN  era * 146097 + doe - 719468

\* time.Date(y, m, d, 0, 0, 0, 0, time.UTC): the month is normalised into
\* 1..12 (carrying into the year) and a day outside the month rolls over.
GoDate(y, m, d) ==
    LET m0 == m - 1
        yn == y + m0 \div 12
        mn == (m0 % 12) + 1
    IN  DaysFromCivil(yn, mn, 1) + d - 1

\* The year, month and day of a day number: Time.Year, Time.Month, Time.Day.
Civil(z) ==
    LET zz  == z + 719468
        era == zz \div 146097
        doe == zz - era * 146097
        yoe == (doe - doe \div 1460 + doe \div 36524 - doe \div 146096) \div 365
        doy == doe - (365 * yoe + yoe \div 4 - yoe \div 100)
        mp  == (5 * doy + 2) \div 153
        d   == doy - (153 * mp + 2) \div 5 + 1
        m   == IF mp < 10 THEN mp + 3 ELSE mp - 9
        y   == yoe + era * 400 + (IF m <= 2 THEN 1 ELSE 0)
    IN  [Year |-> y, Month |-> m, Day |-> d]

\* Time.Weekday: 0 = Sunday ... 6 = Saturday (1970-01-01 was a Thursday).
Weekday(t) == (t + 4) % 7

\* Time.AddDate(0, 0, n).
AddDays(t, n) == t + n

(***************************************************************************)
(* recurring.go: the helpers.                                              *)
(***************************************************************************)

\* Times are whole days, so truncating to 24h keeps the day.
truncateDay(t) == t

maxDate(a, b) == IF a > b THEN a ELSE b

snapToWeekday(d, w) ==
    LET diff0 == w - Weekday(d)
        diff  == IF diff0 < 0 THEN diff0 + 7 ELSE diff0
    IN  AddDays(d, diff)

RECURSIVE PhaseLoop(_, _, _)
\* The loop of alignToNextOnPhase: step d forward until it is not before start.
PhaseLoop(d, start, stepDays) ==
    IF d < start THEN PhaseLoop(AddDays(d, stepDays), start, stepDays) ELSE d

RECURSIVE PhaseLoopStrict(_, _, _)
PhaseLoopStrict(d, start, stepDays) ==
    IF d <= start THEN PhaseLoopStrict(AddDays(d, stepDays), start, stepDays) ELSE d

\* alignToNextOnPhase stepping while d is not after start: it passes over a
\* candidate that falls on the window start itself.
alignToNextOnPhaseStrict(anchor, start, stepDays, wantDOW) ==
    LET d == PhaseLoopStrict(anchor, start, stepDays)
    IN  IF wantDOW >= 0 THEN snapToWeekday(d, wantDOW) ELSE d

alignToNextOnPhase(anchor, start, stepDays, wantDOW) ==
    LET d == PhaseLoop(anchor, start, stepDays)
    IN  IF wantDOW >= 0 THEN snapToWeekday(d, wantDOW) ELSE d

\* dateAtDayOrMonthEnd without its clamp: a day beyond the month rolls over.
dateAtDayNoClamp(y, m, day) == GoDate(y, m, day)

dateAtDayOrMonthEnd(y, m, day) ==
    LET firstNext == GoDate(y, m + 1, 1)
        last      == Civil(AddDays(firstNext, -1)).Day
    IN  GoDate(y, m, IF day > last THEN last ELSE day)

(***************************************************************************)
(* float64, as far as the service uses it: addition, negation, the         *)
(* conversion from a decimal amount (NumericToFloat64, strconv.ParseFloat) *)
(* and the conversion back (fmt.Sprintf("%.2f")).                          *)
(*                                                                         *)
(* A float64 is written [neg, mag]: its value is (+/-) mag * 2^-FracBits,  *)
(* mag an unsigned integer held in NumLimbs limbs of LimbBits bits, least  *)
(* significant first.  Every amount of the model is 0 or at least 0.01 in  *)
(* magnitude, so every float64 the service computes is a multiple of       *)
(* 2^-59 and has at most Precision significant bits.                       *)
(***************************************************************************)

Precision == 53         \* significant bits of a float64
FracBits  == 59         \* the unit in the last place of 0.01 is 2^-59
LimbBits  == 12
NumLimbs  == 7
LimbBase  == 4096       \* 2^LimbBits

RECURSIVE Pow2(_)
Pow2(k) == IF k = 0 THEN 1 ELSE 2 * Pow2(k - 1)

LimbIdx == 1..NumLimbs

LZero == [i \in LimbIdx |-> 0]

\* 2^k as limbs.
LPow2(k) == [i \in LimbIdx |-> IF i = k \div LimbBits + 1 THEN Pow2(k % LimbBits) ELSE 0]

RECURSIVE LAddFrom(_, _, _, _)
\* Limbs i.. of x + y, with the carry into limb i.
LAddFrom(x, y, i, carry) ==
    IF i > NumLimbs THEN <<>>
    ELSE LET t == x[i] + y[i] + carry
         IN  <<t % LimbBase>> \o LAddFrom(x, y, i + 1, t \div LimbBase)

LAdd(x, y) == LAddFrom(x, y, 1, 0)

RECURSIVE LSubFrom(_, _, _, _)
\* Limbs i.. of x - y (x >= y), with the borrow out of limb i - 1.
LSubFrom(x, y, i, borrow) ==
    IF i > NumLimbs THEN <<>>
    ELSE LET t == x[i] - y[i] - borrow
         IN  <<t % LimbBase>> \o LSubFrom(x, y, i + 1, IF t < 0 THEN 1 ELSE 0)

LSub(x, y) == LSubFrom(x, y, 1, 0)

RECURSIVE LCmpFrom(_, _, _)
\* -1, 0 or 1 as x <, =, > y, comparing from limb i downwards.
LCmpFrom(x, y, i) ==
    IF i = 0 THEN 0
    ELSE IF x[i] < y[i] THEN -1
    ELSE IF x[i] > y[i] THEN 1
    ELSE LCmpFrom(x, y, i - 1)

LCmp(x, y) == LCmpFrom(x, y, NumLimbs)

RECURSIVE BitLen(_)
BitLen(n) == IF n = 0 THEN 0 ELSE 1 + BitLen(n \div 2)

RECURSIVE LBitLenFrom(_, _)
LBitLenFrom(x, i) ==
    IF i = 0 THEN 0
    ELSE IF x[i] # 0 THEN (i - 1) * LimbBits + BitLen(x[i])
    ELSE LBitLenFrom(x, i - 1)

\* The number of significant bits of x.
LBitLen(x) == LBitLenFrom(x, NumLimbs)

\* x mod 2^s.
LLowBits(x, s) ==
    [i \in LimbIdx |->
        IF i < s \div LimbBits + 1 THEN x[i]
        ELSE IF i = s \div LimbBits + 1 THEN x[i] % Pow2(s % LimbBits)
        ELSE 0]

\* Bit s of x.
LBit(x, s) == (x[s \div LimbBits + 1] \div Pow2(s % LimbBits)) % 2

\* x rounded to a multiple of 2^s, to nearest and ties to even; sticky says
\* that the exact value lies strictly above x (a discarded remainder).
LRoundAt(x, s, sticky) ==
    LET low  == LLowBits(x, s)
        down == LSub(x, low)
        cmp  == IF s = 0 THEN -1 ELSE LCmp(low, LPow2(s - 1))
        up   == \/ cmp > 0
                \/ cmp = 0 /\ (sticky \/ LBit(x, s) = 1)
    IN  IF up THEN LAdd(down, LPow2(s)) ELSE down

\* x rounded to Precision significant bits.
LRound(x, sticky) ==
    LET len == LBitLen(x)
    IN  IF len <= Precision THEN x ELSE LRoundAt(x, len - Precision, sticky)

RECURSIVE LDivFrom(_, _, _, _)
\* Limbs 1..i of x \div n for a small number n, long division from the most
\* significant limb, with the remainder carried into limb i.
LDivFrom(x, n, i, rem) ==
    IF i = 0 THEN <<>>
    ELSE LET cur == rem * LimbBase + x[i]
         IN  Append(LDivFrom(x, n, i - 1, cur % n), cur \div n)

LDiv(x, n) == LDivFrom(x, n, NumLimbs, 0)

RECURSIVE LModFrom(_, _, _, _)
LModFrom(x, n, i, rem) ==
    IF i = 0 THEN rem ELSE LModFrom(x, n, i - 1, (rem * LimbBase + x[i]) % n)

LMod(x, n) == LModFrom(x, n, NumLimbs, 0)

RECURSIVE LMulFrom(_, _, _, _)
\* Limbs i.. of x times the small number n, with the carry into limb i.
LMulFrom(x, n, i, carry) ==
    IF i > NumLimbs THEN <<>>
    ELSE LET t == x[i] * n + carry
         IN  <<t % LimbBase>> \o LMulFrom(x, n, i + 1, t \div LimbBase)

LMul(x, n) == LMulFrom(x, n, 1, 0)

\* The non-negative integer n < 2^31 as limbs.
LFromInt(n) ==
    [i \in LimbIdx |->
        IF i = 1 THEN n % LimbBase
        ELSE IF i = 2 THEN (n \div LimbBase) % LimbBase
        ELSE IF i = 3 THEN n \div (LimbBase * LimbBase)
        ELSE 0]

\* x * 2^(k * LimbBits).
LShiftLimbs(x, k) == [i \in LimbIdx |-> IF i > k THEN x[i - k] ELSE 0]

\* x \div 2^s as an integer (it must fit one).
LShiftRightInt(x, s) ==
    LET k == s \div LimbBits
        b == Pow2(s % LimbBits)
        at(i) == IF i <= NumLimbs THEN x[i] ELSE 0
    IN  (at(k + 1) \div b) + at(k + 2) * (LimbBase \div b)
        + at(k + 3) * (LimbBase \div b) * LimbBase

FZero == [neg |-> FALSE, mag |-> LZero]

FMake(neg, mag) == IF mag = LZero THEN FZero ELSE [neg |-> neg, mag |-> mag]

\* -x.
FNeg(x) == FMake(~x.neg, x.mag)

\* x + y in float64: the exact sum, rounded to nearest, ties to even.
FAdd(x, y) ==
    IF y.mag = LZero THEN x
    ELSE IF x.mag = LZero THEN y
    ELSE IF x.neg = y.neg THEN FMake(x.neg, LRound(LAdd(x.mag, y.mag), FALSE))
    ELSE IF LCmp(x.mag, y.mag) >= 0 THEN FMake(x.neg, LRound(LSub(x.mag, y.mag), FALSE))
    ELSE FMake(y.neg, LRound(LSub(y.mag, x.mag), FALSE))

\* x < y in float64 (-0 and 0 compare equal).
FLess(x, y) ==
    IF x.mag = LZero /\ y.mag = LZero THEN FALSE
    ELSE IF x.neg # y.neg THEN x.neg
    ELSE IF x.neg THEN LCmp(x.mag, y.mag) > 0
    ELSE LCmp(x.mag, y.mag) < 0

\* The float64 nearest to c / 100 (c an integer number of cents): what
\* big.Rat.Float64 and strconv.ParseFloat return for a two-decimal amount.
CentsToFloat(c) ==
    LET a == IF c < 0 THEN -c ELSE c
        x == LShiftLimbs(LFromInt(a * Pow2(FracBits % LimbBits)), FracBits \div LimbBits)
        q == LDiv(x, 100)
        r == LMod(x, 100)
        len == LBitLen(q)
        m == IF len > Precision THEN LRoundAt(q, len - Precision, r > 0)
             ELSE IF 2 * r > 100 \/ (2 * r = 100 /\ LBit(q, 0) = 1) THEN LAdd(q, LPow2(0))
             ELSE q
    IN  FMake(c < 0, m)

\* The number of cents fmt.Sprintf("%.2f", f) prints: f * 100 rounded to
\* nearest, ties to even.
FloatToCents(f) ==
    LET y == LRoundAt(LMul(f.mag, 100), FracBits, FALSE)
        a == LShiftRightInt(y, FracBits)
    IN  IF f.neg THEN -a ELSE a

(***************************************************************************)
(* pgtype values.  A pgtype.Numeric with two decimals is written as its    *)
(* number of cents; an optional column is [Valid, value].                  *)
(***************************************************************************)

Null == [Valid |-> FALSE, Int32 |-> 0]
Int4(n) == [Valid |-> TRUE, Int32 |-> n]
NullDate == [Valid |-> FALSE, Time |-> 0]
PgDate(t) == [Valid |-> TRUE, Time |-> t]

\* A *int: nil, or a pointer to the Go int hi * 2^32 + lo, lo its low 32 bits
\* read as a signed word.
NilInt == [Valid |-> FALSE, Hi |-> 0, Lo |-> 0]
IntPtr(hi, lo) == [Valid |-> TRUE, Hi |-> hi, Lo |-> lo]

\* pgtype.Int4{Int32: int32(*p), Valid: true} for a non-nil p: the conversion
\* keeps the low 32 bits.
ToInt4(p) == IF p.Valid THEN Int4(p.Lo) ELSE Null

\* A row of recurring_transactions (database.RecurringTransactions).
MkRecurring(id, desc, type, amount, startDate, interval, dow, dom, endDate, active) ==
    [ID |-> id, Description |-> desc, Type |-> type, Amount |-> amount,
     StartDate |-> startDate, Interval |-> interval, DayOfWeek |-> dow,
     DayOfMonth |-> dom, EndDate |-> endDate, Active |-> active]

NumericToFloat64(n) == CentsToFloat(n)

toFloat(n) == NumericToFloat64(n)

makePgNumeric(f) == FloatToCents(f)

makePgDate(t) == t

(***************************************************************************)
(* recurring.go: the expansion of one series over a window.                *)
(***************************************************************************)

\* toTxFromRecurring carrying the stored amount whatever the direction.
toTxFromRecurringUnsigned(r, d) ==
    [ID |-> 0, Date |-> makePgDate(d), Amount |-> r.Amount,
     Description |-> r.Description, Type |-> r.Type]

toTxFromRecurring(r, d) ==
    LET amt == IF r.Type = "expense" THEN makePgNumeric(FNeg(toFloat(r.Amount)))
               ELSE r.Amount
    IN  [ID |-> 0, Date |-> makePgDate(d), Amount |-> amt,
         Description |-> r.Description, Type |-> r.Type]

RECURSIVE WeeklyLoop(_, _, _, _, _)
\* The emission loop of expandWeeklyLike, from candidate d.
WeeklyLoop(r, d, end, step, wantDOW) ==
    IF d > end THEN <<>>
    ELSE LET e == IF Weekday(d) # wantDOW THEN snapToWeekday(d, wantDOW) ELSE d
         IN  <<toTxFromRecurring(r, e)>> \o WeeklyLoop(r, AddDays(e, step), end, step, wantDOW)

\* expandWeeklyLike aligning on the window start alone, without the phase of the anchor.
expandWeeklyLikeNoPhase(r, start, end) ==
    LET step    == IF r.Interval = "biweekly" THEN 14 ELSE 7
        anchor  == truncateDay(r.StartDate)
        wantDOW == IF r.DayOfWeek.Valid THEN r.DayOfWeek.Int32 ELSE Weekday(anchor)
    IN  WeeklyLoop(r, snapToWeekday(start, wantDOW), end, step, wantDOW)

\* expandWeeklyLike pinning the weekday from the second occurrence on only.
expandWeeklyLikeFirstUnpinned(r, start, end) ==
    LET step    == IF r.Interval = "biweekly" THEN 14 ELSE 7
        anchor  == truncateDay(r.StartDate)
        wantDOW == IF r.DayOfWeek.Valid THEN r.DayOfWeek.Int32 ELSE Weekday(anchor)
        first   == alignToNextOnPhase(anchor, start, step, -1)
    IN  IF first > end THEN <<>>
        ELSE <<toTxFromRecurring(r, first)>>
                 \o WeeklyLoop(r, AddDays(snapToWeekday(first, wantDOW), step), end,
                               step, wantDOW)

expandWeeklyLike(r, start, end) ==
    LET step    == IF r.Interval = "biweekly" THEN 14 ELSE 7
        anchor  == truncateDay(r.StartDate)
        wantDOW == IF r.DayOfWeek.Valid THEN r.DayOfWeek.Int32 ELSE Weekday(anchor)
        first   == alignToNextOnPhase(anchor, start, step, wantDOW)
    IN  WeeklyLoop(r, first, end, step, wantDOW)

RECURSIVE MonthlyLoop(_, _, _, _, _, _, _)
\* The loop of expandMonthly, at month (y, m).
MonthlyLoop(r, y, m, day, start, end, anchor) ==
    LET d == dateAtDayOrMonthEnd(y, m, day)
    IN  IF d > end THEN <<>>
        ELSE (IF d >= start /\ d >= anchor THEN <<toTxFromRecurring(r, d)>> ELSE <<>>)
             \o (IF m = 12 THEN MonthlyLoop(r, y + 1, 1, day, start, end, anchor)
                 ELSE MonthlyLoop(r, y, m + 1, day, start, end, anchor))

\* expandMonthly without the skip of a candidate before the range start.
expandMonthlyNoSkip(r, start, end) ==
    LET anchor == truncateDay(r.StartDate)
        day    == IF r.DayOfMonth.Valid THEN r.DayOfMonth.Int32 ELSE Civil(anchor).Day
    IN  MonthlyLoop(r, Civil(start).Year, Civil(start).Month, day, anchor, end, anchor)

expandMonthly(r, start, end) ==
    LET anchor == truncateDay(r.StartDate)
        day    == IF r.DayOfMonth.Valid THEN r.DayOfMonth.Int32 ELSE Civil(anchor).Day
    IN  MonthlyLoop(r, Civil(start).Year, Civil(start).Month, day, start, end, anchor)

RECURSIVE YearlyLoop(_, _, _, _, _, _)
\* The loop of expandYearly, at year y.
YearlyLoop(r, y, month, day, end, anchor) ==
    LET cand == dateAtDayOrMonthEnd(y, month, day)
    IN  IF cand > end THEN <<>>
        ELSE (IF cand >= anchor THEN <<toTxFromRecurring(r, cand)>> ELSE <<>>)
             \o YearlyLoop(r, y + 1, month, day, end, anchor)

\* A sequence back to front.
Reverse(seq) == [i \in 1..Len(seq) |-> seq[Len(seq) + 1 - i]]

\* expandYearly listing the latest occurrence first.
expandYearlyNewestFirst(r, start, end) ==
    LET anchor == truncateDay(r.StartDate)
        day    == IF r.DayOfMonth.Valid THEN r.DayOfMonth.Int32 ELSE Civil(anchor).Day
        month  == Civil(anchor).Month
        y0     == Civil(start).Year
        y      == IF dateAtDayOrMonthEnd(y0, month, day) < start THEN y0 + 1 ELSE y0
    IN  Reverse(YearlyLoop(r, y, month, day, end, anchor))

\* expandYearly taking the day from the anchor alone.
expandYearlyAnchorDay(r, start, end) ==
    LET anchor == truncateDay(r.StartDate)
        day    == Civil(anchor).Day
        month  == Civil(anchor).Month
        y0     == Civil(start).Year
        y      == IF dateAtDayOrMonthEnd(y0, month, day) < start THEN y0 + 1 ELSE y0
    IN  YearlyLoop(r, y, month, day, end, anchor)

expandYearly(r, start, end) ==
    LET anchor == truncateDay(r.StartDate)
        day    == IF r.DayOfMonth.Valid THEN r.DayOfMonth.Int32 ELSE Civil(anchor).Day
        month  == Civil(anchor).Month
        y0     == Civil(start).Year
        y      == IF dateAtDayOrMonthEnd(y0, month, day) < start THEN y0 + 1 ELSE y0
    IN  YearlyLoop(r, y, month, day, end, anchor)

\* expandOne without the cut at the series' end date.
expandOneNoEnd(r, start, end) ==
    IF r.StartDate > end THEN <<>>
    ELSE LET winStart == maxDate(start, r.StartDate)
         IN  CASE r.Interval \in {"weekly", "biweekly"} -> expandWeeklyLike(r, winStart, end)
               [] r.Interval = "monthly" -> expandMonthly(r, winStart, end)
               [] r.Interval = "yearly" -> expandYearly(r, winStart, end)
               [] OTHER -> <<>>

expandOne(r, start, end) ==
    IF r.StartDate > end THEN <<>>
    ELSE IF r.EndDate.Valid /\ r.EndDate.Time < start THEN <<>>
    ELSE LET winStart == maxDate(start, r.StartDate)
             winEnd   == IF r.EndDate.Valid /\ r.EndDate.Time < end
                         THEN r.EndDate.Time ELSE end
         IN  CASE r.Interval \in {"weekly", "biweekly"} -> expandWeeklyLike(r, winStart, winEnd)
               [] r.Interval = "monthly" -> expandMonthly(r, winStart, winEnd)
               [] r.Interval = "yearly" -> expandYearly(r, winStart, winEnd)
               [] OTHER -> <<>>

(***************************************************************************)
(* The expander on its own: a series and a window split in two are drawn   *)
(* from bounded sets, and expandOne is applied to the window and to each   *)
(* half.                                                                   *)
(***************************************************************************)

MaxLead     == 8    \* a window starts at most this many days before the anchor
MaxLag      == 9    \* ... and at most this many days after it
MaxLeftLen  == 6    \* the left sub-window has 1 .. MaxLeftLen + 1 days

WeeklyAnchors  == {DaysFromCivil(2024, 1, 1)}
MonthlyAnchors == {DaysFromCivil(2023, 12, 31), DaysFromCivil(2024, 1, 15),
                   DaysFromCivil(2024, 1, 30), DaysFromCivil(2024, 2, 29)}
YearlyAnchors  == {DaysFromCivil(2020, 2, 29), DaysFromCivil(2021, 3, 31),
                   DaysFromCivil(2021, 12, 31)}

WeeklySeries ==
    {MkRecurring(1, "rent", "expense", 150000, a, i, dow, Null, e, TRUE) :
        a \in WeeklyAnchors, i \in {"weekly", "biweekly"},
        dow \in {Null} \cup {Int4(w) : w \in 0..6},
        e \in {NullDate, PgDate(DaysFromCivil(2024, 1, 24))}}

MonthlySeries ==
    {MkRecurring(2, "pay", "income", 250050, a, "monthly", Null, dom, e, TRUE) :
        a \in MonthlyAnchors,
        dom \in {Null} \cup {Int4(n) : n \in {1, 10, 29, 31}},
        e \in {NullDate, PgDate(DaysFromCivil(2025, 2, 28))}}

YearlySeries ==
    {MkRecurring(3, "fee", "expense", 9999, a, "yearly", Null, dom, e, TRUE) :
        a \in YearlyAnchors,
        dom \in {Null} \cup {Int4(n) : n \in {15, 31}},
        e \in {NullDate, PgDate(DaysFromCivil(2024, 2, 28))}}

ExpandSeries == WeeklySeries \cup MonthlySeries \cup YearlySeries

\* The first days of the windows tried on series r.
WindowStarts(r) ==
    CASE r.Interval \in {"weekly", "biweekly"} ->
            (r.StartDate - MaxLead)..(r.StartDate + MaxLag)
      [] r.Interval = "monthly" ->
            {DaysFromCivil(2023, 12, 20), DaysFromCivil(2024, 1, 31),
             DaysFromCivil(2024, 2, 1), DaysFromCivil(2024, 2, 29),
             DaysFromCivil(2025, 1, 29), DaysFromCivil(2025, 2, 1)}
      [] OTHER ->
            {DaysFromCivil(2019, 6, 1), DaysFromCivil(2020, 2, 29),
             DaysFromCivil(2020, 3, 1), DaysFromCivil(2021, 2, 28),
             DaysFromCivil(2021, 12, 31), DaysFromCivil(2023, 3, 1)}

\* winB - winA.
LeftLens(r) ==
    CASE r.Interval \in {"weekly", "biweekly"} -> 0..MaxLeftLen
      [] r.Interval = "monthly" -> {0, 1, 9, 27, 28, 29, 30}
      [] OTHER -> {0, 1, 364, 365, 366}

\* winC - (winB + 1).
RightLens(r) ==
    CASE r.Interval \in {"weekly", "biweekly"} -> {0, 6, 14, 21}
      [] r.Interval = "monthly" -> {0, 1, 28, 30, 31, 61, 89}
      [] OTHER -> {0, 1, 365, 366, 730, 1461}

InitExpand ==
    /\ series \in ExpandSeries
    /\ winA = 0 /\ winB = 0 /\ winC = 0
    /\ outAC = <<>> /\ outAB = <<>> /\ outBC = <<>>
    /\ phase = "input"
    /\ transactions = <<>> /\ recurrings = <<>>
    /\ setting = [Valid |-> FALSE, Value |-> 0]
    /\ nextID = [tx |-> 1, rec |-> 1]
    /\ today = 0
    /\ resp = [op |-> "none"]
    /\ req = NoRequest

\* expandOne over [a, c], over [a, b] and over [b + 1, c].
Expand(a, b, c) ==
    /\ phase = "input"
    /\ winA' = a /\ winB' = b /\ winC' = c
    /\ outAC' = expandOne(series, a, c)
    /\ outAB' = expandOne(series, a, b)
    /\ outBC' = expandOne(series, b + 1, c)
    /\ phase' = "expanded"
    /\ UNCHANGED <<series, storeVars, resp, req>>

NextExpand ==
    \E a \in WindowStarts(series), l \in LeftLens(series), k \in RightLens(series) :
        Expand(a, a + l, a + l + 1 + k)

SpecExpand == InitExpand /\ [][NextExpand]_vars

(***************************************************************************)
(* What the expansion is expected to return, stated from the calendar.     *)
(***************************************************************************)

Min(a, b) == IF a < b THEN a ELSE b
Max(a, b) == IF a > b THEN a ELSE b

IsLeap(y) == (y % 4 = 0 /\ y % 100 # 0) \/ y % 400 = 0

DaysInMonth(y, m) ==
    IF m = 2 THEN (IF IsLeap(y) THEN 29 ELSE 28)
    ELSE IF m \in {4, 6, 9, 11} THEN 30 ELSE 31

\* The dates of a list of transactions.
Dates(out) == {out[i].Date : i \in 1..Len(out)}

NoRepeat(out) == Cardinality(Dates(out)) = Len(out)

\* The effective range of the series under expansion for the window [ws, we].
EffStart(ws) == Max(ws, series.StartDate)
EffEnd(we) == IF series.EndDate.Valid THEN Min(we, series.EndDate.Time) ELSE we

\* The first date on weekday w that is on or after t.
FirstOnWeekday(t, w) == CHOOSE d \in t..(t + 6) : Weekday(d) = w

Step == IF series.Interval = "biweekly" THEN 14 ELSE 7

\* d = anchor + k * Step for some k >= 0.
OnPhase(d) == d >= series.StartDate /\ (d - series.StartDate) % Step = 0

\* The target day of a monthly or yearly series.
TargetDay ==
    IF series.DayOfMonth.Valid THEN series.DayOfMonth.Int32
    ELSE Civil(series.StartDate).Day

\* Day `day` of month (y, m), or the month's last day when it has fewer days.
Clamped(y, m, day) == DaysFromCivil(y, m, Min(day, DaysInMonth(y, m)))

Expanded == phase = "expanded"

\* The three expansions of a state, each with its window.
Runs == {<<outAC, winA, winC>>, <<outAB, winA, winB>>, <<outBC, winB + 1, winC>>}

\* C1: expanding [a, b] and [b + 1, c] separately gives, in union, exactly the
\* occurrence dates of expanding [a, c] once: none duplicated, none omitted.
C1_Composable ==
    Expanded =>
        /\ Dates(outAB) \cup Dates(outBC) = Dates(outAC)
        /\ Len(outAB) + Len(outBC) = Len(outAC)

\* C2: every occurrence lies in [max(windowStart, series.start),
\* min(windowEnd, series.end if set)], and the result is empty when the series
\* starts after the window or ended before it.
C2_WithinEffectiveRange ==
    Expanded =>
        \A run \in Runs :
            LET out == run[1]
                ws  == run[2]
                we  == run[3]
            IN  /\ \A i \in 1..Len(out) :
                       EffStart(ws) <= out[i].Date /\ out[i].Date <= EffEnd(we)
                /\ series.StartDate > we => out = <<>>
                /\ (series.EndDate.Valid /\ series.EndDate.Time < ws) => out = <<>>

\* A series that starts inside the window and ends inside it, with occurrences.
C2_Witness ==
    /\ Expanded
    /\ winA < series.StartDate
    /\ series.EndDate.Valid /\ series.EndDate.Time < winC
    /\ Len(outAC) >= 2
    /\ outAC[1].Date = series.StartDate

\* C3: every occurrence of a monthly series is dated day min(T, days in its
\* month) of its month, T the explicit day-of-month or else the anchor's day:
\* a target day beyond the month's length never rolls over into the next month.
C3_MonthlyClamp ==
    (Expanded /\ series.Interval = "monthly") =>
        \A run \in Runs :
            \A i \in 1..Len(run[1]) :
                LET c == Civil(run[1][i].Date)
                IN  c.Day = Min(TargetDay, DaysInMonth(c.Year, c.Month))

\* Target day 31 across February of a leap and of a non-leap year.
C3_Witness ==
    /\ Expanded /\ series.Interval = "monthly" /\ TargetDay = 31
    /\ DaysFromCivil(2025, 2, 28) \in Dates(outAC)
    /\ DaysFromCivil(2025, 1, 31) \in Dates(outAC)

Gaps(out, n) == \A i \in 1..(Len(out) - 1) : out[i + 1].Date - out[i].Date = n

WeeklyUnpinned ==
    Expanded /\ series.Interval = "weekly" /\ ~series.DayOfWeek.Valid
        /\ winC - winA + 1 >= 7

\* C7 as stated: for a weekly series without a day-of-week and a window of at
\* least one full cycle, the occurrences are 7 days apart and the first is the
\* smallest date >= the window start on the anchor's weekday.
C7_FirstFromWindowStart ==
    WeeklyUnpinned =>
        /\ Gaps(outAC, 7)
        /\ outAC # <<>> =>
               outAC[1].Date = FirstOnWeekday(winA, Weekday(series.StartDate))

\* C7 amended: ... the first is the smallest date >= the later of the window
\* start and the series' start date on the anchor's weekday, and there is one
\* whenever the effective range spans a full cycle.
C7_FirstFromEffectiveStart ==
    WeeklyUnpinned =>
        /\ Gaps(outAC, 7)
        /\ outAC # <<>> =>
               outAC[1].Date = FirstOnWeekday(EffStart(winA), Weekday(series.StartDate))
        /\ EffEnd(winC) - EffStart(winA) + 1 >= 7 => outAC # <<>>

\* A window that starts after the anchor, off the anchor's weekday.
C7_Witness ==
    /\ WeeklyUnpinned
    /\ winA > series.StartDate /\ Weekday(winA) # Weekday(series.StartDate)
    /\ Len(outAC) >= 3

\* C8: with an explicit day-of-week W every occurrence of a weekly or biweekly
\* series is on weekday W and is the first date on W on or after
\* anchor + k * step for some k >= 0; without one it is anchor + k * step.
C8_PhaseFromAnchor ==
    (Expanded /\ series.Interval \in {"weekly", "biweekly"}) =>
        \A run \in Runs :
            \A i \in 1..Len(run[1]) :
                LET d == run[1][i].Date
                IN  IF series.DayOfWeek.Valid
                    THEN /\ Weekday(d) = series.DayOfWeek.Int32
                         /\ \E c \in (d - 6)..d :
                                OnPhase(c) /\ FirstOnWeekday(c, series.DayOfWeek.Int32) = d
                    ELSE OnPhase(d)

\* A biweekly series pinned to another weekday than its anchor's.
C8_Witness ==
    /\ Expanded /\ series.Interval = "biweekly"
    /\ series.DayOfWeek.Valid /\ series.DayOfWeek.Int32 # Weekday(series.StartDate)
    /\ winA > series.StartDate
    /\ Len(outAC) >= 2

\* The days by which an explicit day-of-week moves every occurrence.
WeekdayOffset ==
    IF series.DayOfWeek.Valid
    THEN (series.DayOfWeek.Int32 - Weekday(series.StartDate) + 7) % 7
    ELSE 0

\* C26: within one call of expandOne on a weekly or biweekly series the
\* consecutive occurrences are exactly 7 or 14 days apart, also when an
\* explicit day-of-week differs from the anchor's weekday: every occurrence
\* is a phase date moved by the same 0 to 6 days.
C26_RegularGaps ==
    (Expanded /\ series.Interval \in {"weekly", "biweekly"}) =>
        \A run \in Runs :
            /\ Gaps(run[1], Step)
            /\ WeekdayOffset \in 0..6
            /\ \A i \in 1..Len(run[1]) : OnPhase(run[1][i].Date - WeekdayOffset)

\* Three weekly occurrences pinned to another weekday than the anchor's.
C26_Witness ==
    /\ Expanded /\ series.Interval = "weekly"
    /\ series.DayOfWeek.Valid /\ series.DayOfWeek.Int32 # Weekday(series.StartDate)
    /\ Len(outAC) >= 3
    /\ outAC[2].Date - outAC[1].Date = 7

\* The candidates of a monthly series that lie in the effective range.
ExpectedMonthly(ws, we) ==
    {d \in {Clamped(y, m, TargetDay) : y \in Civil(ws).Year..Civil(we).Year, m \in 1..12} :
        EffStart(ws) <= d /\ d <= EffEnd(we) /\ d >= series.StartDate}

\* C9: a monthly series yields exactly one occurrence for each month whose
\* clamped candidate is in the effective range and not before the anchor, and
\* nothing for any other month.
C9_MonthlyOnePerMonth ==
    (Expanded /\ series.Interval = "monthly") =>
        \A run \in Runs :
            /\ Dates(run[1]) = ExpectedMonthly(run[2], run[3])
            /\ NoRepeat(run[1])

\* Anchored on the 15th with day-of-month 10: the first occurrence is in the
\* month after the anchor's.
C9_Witness ==
    /\ Expanded /\ series.Interval = "monthly"
    /\ series.StartDate = DaysFromCivil(2024, 1, 15) /\ TargetDay = 10
    /\ winA < series.StartDate
    /\ Len(outAC) >= 2 /\ outAC[1].Date = DaysFromCivil(2024, 2, 10)

\* The candidates of a yearly series on day `day` of the anchor's month.
ExpectedYearly(ws, we, day) ==
    {d \in {Clamped(y, Civil(series.StartDate).Month, day) :
                y \in Civil(ws).Year..Civil(we).Year} :
        EffStart(ws) <= d /\ d <= EffEnd(we) /\ d >= series.StartDate}

\* C10 as stated: a yearly series yields, for each year whose candidate is in
\* the effective range and not before the anchor, one occurrence in the
\* anchor's month on the anchor's day of month, clamped to the month's length.
C10_YearlyOnAnchorDay ==
    (Expanded /\ series.Interval = "yearly") =>
        \A run \in Runs :
            /\ Dates(run[1]) = ExpectedYearly(run[2], run[3], Civil(series.StartDate).Day)
            /\ NoRepeat(run[1])

\* C10 amended: ... on the target day, the explicit day-of-month if present
\* and else the anchor's day of month, clamped to the month's length.
C10_YearlyOnTargetDay ==
    (Expanded /\ series.Interval = "yearly") =>
        \A run \in Runs :
            /\ Dates(run[1]) = ExpectedYearly(run[2], run[3], TargetDay)
            /\ NoRepeat(run[1])

\* An anchor of Feb 29 yields Feb 28 in a non-leap year.
C10_Witness ==
    /\ Expanded /\ series.Interval = "yearly"
    /\ series.StartDate = DaysFromCivil(2020, 2, 29) /\ ~series.DayOfMonth.Valid
    /\ DaysFromCivil(2020, 2, 29) \in Dates(outAC)
    /\ DaysFromCivil(2021, 2, 28) \in Dates(outAC)

\* C11: every occurrence projected from a series carries the stored amount
\* when the series is an income and its negation when it is an expense, with
\* the description and the direction of the series.
C11_SignedAmount ==
    Expanded =>
        \A run \in Runs :
            \A i \in 1..Len(run[1]) :
                LET occ == run[1][i]
                IN  /\ occ.Amount = IF series.Type = "income" THEN series.Amount
                                    ELSE -series.Amount
                    /\ occ.Description = series.Description
                    /\ occ.Type = series.Type
                    /\ series.Type \in {"income", "expense"}

\* An expense series with several occurrences.
C11_Witness ==
    /\ Expanded /\ series.Type = "expense" /\ series.Amount > 0
    /\ Len(outAC) >= 2 /\ outAC[1].Amount = -series.Amount

\* C12: the occurrences expandOne returns are in strictly ascending date
\* order: none shares its date with another, none precedes an earlier-listed one.
C12_StrictlyAscending ==
    Expanded =>
        \A run \in Runs :
            \A i \in 1..Len(run[1]), j \in 1..Len(run[1]) :
                i < j => run[1][i].Date < run[1][j].Date

\* Expansions of three or more occurrences, split over both sub-windows.
C12_Witness ==
    /\ Expanded
    /\ Len(outAC) >= 3 /\ outAB # <<>> /\ outBC # <<>>
    /\ outAC[1].Date < outAC[Len(outAC)].Date

(***************************************************************************)
(* The store (the sqlc queries) and the finance service on top of it.      *)
(***************************************************************************)

RECURSIVE SortByDate(_)
\* ORDER BY date ASC; rows of one date keep their insertion order.
SortByDate(rows) ==
    IF rows = <<>> THEN <<>>
    ELSE LET n    == Len(rows)
             init == SortByDate(SubSeq(rows, 1, n - 1))
             last == rows[n]
             keep == SelectSeq(init, LAMBDA t : t.Date <= last.Date)
             rest == SelectSeq(init, LAMBDA t : t.Date > last.Date)
         IN  keep \o <<last>> \o rest

\* transactions.sql: GetAllTransactions.
GetAllTransactions(table) == SortByDate(table)

\* ListActiveRecurring without its WHERE clause (ListRecurring).
ListRecurring(table) == table

\* recurring.sql: ListActiveRecurring.
ListActiveRecurring(table) == SelectSeq(table, LAMBDA r : r.Active)

\* The CHECK constraints of table recurring_transactions.
RecurringChecks(r) ==
    /\ r.Type \in {"income", "expense"}
    /\ r.Interval \in {"weekly", "biweekly", "monthly", "yearly"}
    /\ r.DayOfWeek.Valid => r.DayOfWeek.Int32 \in 0..6
    /\ r.DayOfMonth.Valid => r.DayOfMonth.Int32 \in 1..31

\* strings.ToLower(strings.TrimSpace(s)), on the spellings the model enters.
ToLowerTrimSpace(s) ==
    CASE s = " Weekly " -> "weekly"
      [] s = "MONTHLY" -> "monthly"
      [] OTHER -> s

\* The error of parseIntervalEnum, and the store's on a failed CHECK.
ErrInvalidInterval == "invalid interval"
ErrCheckViolation == "violates check constraint"

\* [ok, value]: the interval enum, or an error.
parseIntervalEnum(s) ==
    LET t == ToLowerTrimSpace(s)
    IN  IF t \in {"weekly", "biweekly", "monthly", "yearly"}
        THEN [ok |-> TRUE, value |-> t]
        ELSE [ok |-> FALSE, value |-> ""]

\* A Go error: its text, empty for nil.
Nil == ""

\* The error the store returns when query `query` fails.
StoreError(query) == query

\* No query fails during the request.
NoFault == "none"

\* What query `query` returns: rows, or the store's error when it is the one
\* that fails during the request.
Query(query, rows, fault) ==
    IF fault = query THEN [err |-> StoreError(query), rows |-> <<>>]
    ELSE [err |-> Nil, rows |-> rows]

\* The result of a query the function returned before making.
NotQueried == [err |-> Nil, rows |-> <<>>]

RECURSIVE ExpandEach(_, _, _)
\* The loop of ExpandRecurringBetween over the series rs.
ExpandEach(rs, start, end) ==
    IF rs = <<>> THEN <<>>
    ELSE expandOne(Head(rs), start, end) \o ExpandEach(Tail(rs), start, end)

\* rs: what fs.db.ListActiveRecurring returned.
ExpandRecurringBetween(rs, start, end) ==
    IF rs.err # Nil THEN [err |-> rs.err, rows |-> <<>>]
    ELSE [err |-> Nil, rows |-> ExpandEach(rs.rows, start, end)]

\* pgx.ErrNoRows: the query found no row.
ErrNoRows == "no rows in result set"

\* settings.sql: GetSetting on the starting_balance row s.
GetSetting(s, fault) ==
    IF fault = "GetSetting" THEN [err |-> StoreError("GetSetting"), value |-> 0]
    ELSE IF ~s.Valid THEN [err |-> ErrNoRows, value |-> 0]
    ELSE [err |-> Nil, value |-> s.Value]

\* GetStartingBalance failing when the setting cannot be read.
GetStartingBalanceStrict(q) ==
    IF q.err # Nil THEN [err |-> q.err, value |-> FZero]
    ELSE [err |-> Nil, value |-> CentsToFloat(q.value)]

\* q: what fs.db.GetSetting returned.  Any error reads as 0; the stored text
\* is parsed otherwise.
GetStartingBalance(q) ==
    IF q.err # Nil THEN [err |-> Nil, value |-> FZero]
    ELSE [err |-> Nil, value |-> CentsToFloat(q.value)]

ForecastDays == 90

RECURSIVE DailyDeltas(_, _, _)
\* Step 4 of Calculate90DayForecast: the map from day to summed amount, after
\* the transactions txs[i..] are added to the map daily.
DailyDeltas(txs, i, daily) ==
    IF i > Len(txs) THEN daily
    ELSE LET day == txs[i].Date
             cur == IF day \in DOMAIN daily THEN daily[day] ELSE FZero
             sum == FAdd(cur, NumericToFloat64(txs[i].Amount))
         IN  DailyDeltas(txs, i + 1,
                 [d \in DOMAIN daily \cup {day} |-> IF d = day THEN sum ELSE daily[d]])

RECURSIVE Accumulate(_, _, _, _)
\* Step 5 of Calculate90DayForecast: the entries of days i, i + 1, ...
Accumulate(daily, start, i, bal) ==
    IF i >= ForecastDays THEN <<>>
    ELSE LET day    == AddDays(start, i)
             change == IF day \in DOMAIN daily THEN daily[day] ELSE FZero
             newBal == FAdd(bal, change)
         IN  <<[Date |-> day, Balance |-> newBal, Change |-> change]>>
             \o Accumulate(daily, start, i + 1, newBal)

EmptyMap == [d \in {} |-> FZero]

\* The forecast from the one-offs alone, the recurring series left out.
Calculate90DayForecastOneOffs(oneOffs, rs, now, startingBalance) ==
    IF oneOffs.err # Nil THEN [err |-> oneOffs.err, fc |-> <<>>]
    ELSE [err |-> Nil,
          fc  |-> Accumulate(DailyDeltas(oneOffs.rows, 1, EmptyMap), now, 0, startingBalance)]

\* The forecast that, when the series cannot be listed, is computed from the
\* one-offs and returned with the error.
Calculate90DayForecastPartial(oneOffs, rs, now, startingBalance) ==
    LET Build(recs) ==
            IF oneOffs.err # Nil THEN [err |-> oneOffs.err, fc |-> <<>>]
            ELSE [err |-> recs.err,
                  fc  |-> Accumulate(DailyDeltas(oneOffs.rows \o recs.rows, 1, EmptyMap),
                                     now, 0, startingBalance)]
    IN  Build(ExpandRecurringBetween(rs, now, AddDays(now, 89)))

\* The forecast whose first balance carries the one-offs dated before the
\* window.
Calculate90DayForecastCarried(oneOffs, rs, now, startingBalance) ==
    LET Build(recs, daily) ==
            IF oneOffs.err # Nil THEN [err |-> oneOffs.err, fc |-> <<>>]
            ELSE IF recs.err # Nil THEN [err |-> recs.err, fc |-> <<>>]
            ELSE [err |-> Nil,
                  fc  |-> Accumulate(
                              DailyDeltas(oneOffs.rows \o recs.rows, 1, EmptyMap), now, 0,
                              IF AddDays(now, -1) \in DOMAIN daily
                              THEN FAdd(startingBalance, daily[AddDays(now, -1)])
                              ELSE startingBalance)]
    IN  Build(ExpandRecurringBetween(rs, now, AddDays(now, 89)),
              DailyDeltas(oneOffs.rows, 1, EmptyMap))

\* oneOffs: what fs.db.GetAllTransactions returned; rs: what
\* fs.db.ListActiveRecurring returned.  [err, fc]: the error, or the forecast.
Calculate90DayForecast(oneOffs, rs, now, startingBalance) ==
    LET Build(start, recs) ==
            IF oneOffs.err # Nil THEN [err |-> oneOffs.err, fc |-> <<>>]
            ELSE IF recs.err # Nil THEN [err |-> recs.err, fc |-> <<>>]
            ELSE [err |-> Nil,
                  fc  |-> Accumulate(DailyDeltas(oneOffs.rows \o recs.rows, 1, EmptyMap),
                                     start, 0, startingBalance)]
    IN  Build(now, ExpandRecurringBetween(rs, now, AddDays(now, 89)))

\* DailyCashFlow{}: the zero time.Time is January 1 of year 1.
ZeroDay == [Date |-> DaysFromCivil(1, 1, 1), Balance |-> FZero, Change |-> FZero]

RECURSIVE LowestLoopLast(_, _, _)
\* The scan that moves to a later day of equal balance.
LowestLoopLast(forecast, i, low) ==
    IF i > Len(forecast) THEN low
    ELSE IF ~FLess(low.lowest.Balance, forecast[i].Balance)
         THEN LowestLoopLast(forecast, i + 1, [lowest |-> forecast[i], index |-> i - 1])
         ELSE LowestLoopLast(forecast, i + 1, low)

\* FindLowestPoint returning the last day of minimum balance.
FindLowestPointLast(forecast) ==
    IF Len(forecast) = 0 THEN [lowest |-> ZeroDay, index |-> -1]
    ELSE LowestLoopLast(forecast, 1, [lowest |-> forecast[1], index |-> 0])

RECURSIVE LowestLoop(_, _, _)
\* The scan of FindLowestPoint from entry i (1-based), low the lowest so far
\* with its 0-based index.
LowestLoop(forecast, i, low) ==
    IF i > Len(forecast) THEN low
    ELSE IF FLess(forecast[i].Balance, low.lowest.Balance)
         THEN LowestLoop(forecast, i + 1, [lowest |-> forecast[i], index |-> i - 1])
         ELSE LowestLoop(forecast, i + 1, low)

\* [lowest, index]: the two results.
FindLowestPoint(forecast) ==
    IF Len(forecast) = 0 THEN [lowest |-> ZeroDay, index |-> -1]
    ELSE LowestLoop(forecast, 1, [lowest |-> forecast[1], index |-> 0])

\* transactions.sql: GetTransactionsByDateRange (date BETWEEN $1 AND $2 ORDER
\* BY date ASC).
GetTransactionsByDateRange(table, start, end) ==
    SortByDate(SelectSeq(table, LAMBDA t : start <= t.Date /\ t.Date <= end))

\* The bytes of the descriptions the model enters.
Bytes(str) ==
    CASE str = "Zoo"   -> <<90, 111, 111>>
      [] str = "apple" -> <<97, 112, 112, 108, 101>>
      [] str = "club"  -> <<99, 108, 117, 98>>
      [] str = "food"  -> <<102, 111, 111, 100>>
      [] str = "gift"  -> <<103, 105, 102, 116>>
      [] str = "news"  -> <<110, 101, 119, 115>>
      [] str = "pay"   -> <<112, 97, 121>>
      [] str = "rent"  -> <<114, 101, 110, 116>>
      [] str = "rental" -> <<114, 101, 110, 116, 97, 108>>
      [] OTHER -> <<>>

RECURSIVE BytesLess(_, _, _)
\* x[i..] < y[i..], byte by byte; a proper prefix is smaller.
BytesLess(x, y, i) ==
    IF i > Len(y) THEN FALSE
    ELSE IF i > Len(x) THEN TRUE
    ELSE IF x[i] # y[i] THEN x[i] < y[i]
    ELSE BytesLess(x, y, i + 1)

\* Go's < on strings.
StringLess(a, b) == BytesLess(Bytes(a), Bytes(b), 1)

\* The order of the merged list by date alone.
lessByDate(a, b) == a.Date < b.Date

\* The less function handed to sort.SliceStable: by date, then by description.
less(a, b) ==
    IF a.Date = b.Date THEN StringLess(a.Description, b.Description)
    ELSE a.Date < b.Date

RECURSIVE SliceStable(_)
\* sort.SliceStable under less: elements that compare equal keep their order.
SliceStable(all) ==
    IF all = <<>> THEN <<>>
    ELSE LET n    == Len(all)
             init == SliceStable(SubSeq(all, 1, n - 1))
             last == all[n]
             keep == SelectSeq(init, LAMBDA t : ~less(last, t))
             rest == SelectSeq(init, LAMBDA t : less(last, t))
         IN  keep \o <<last>> \o rest

\* oneOffs: what fs.db.GetTransactionsByDateRange returned; rs: what
\* fs.db.ListActiveRecurring returned.
GetTransactionsWithRecurringsBetween(oneOffs, rs, start, end) ==
    LET Merge(recs) ==
            IF oneOffs.err # Nil THEN [err |-> oneOffs.err, rows |-> <<>>]
            ELSE IF recs.err # Nil THEN [err |-> recs.err, rows |-> <<>>]
            ELSE [err |-> Nil, rows |-> SliceStable(oneOffs.rows \o recs.rows)]
    IN  Merge(ExpandRecurringBetween(rs, start, end))

\* The days the /forecast handler serves for the query parameter days, q the
\* result of strconv.Atoi (not Valid when the parameter is absent or no number).
ParseDays(q) == IF q.Valid /\ q.Int32 > 0 /\ q.Int32 <= 365 THEN q.Int32 ELSE 90

\* handleForecast: the 90-day forecast, cut when fewer days are asked for.
ServeForecast(fc, days) == IF days < Len(fc) THEN SubSeq(fc, 1, days) ELSE fc

(***************************************************************************)
(* The service in use.  A write is one statement on the store and a step;   *)
(* a request that reads makes one round trip to the store per step, keeps  *)
(* what it has read in req, and answers at its last step.  Writes of other *)
(* requests fall between the steps.                                        *)
(***************************************************************************)

MaxTx  == 2     \* rows of table transactions
MaxRec == 1     \* rows of table recurring_transactions
MaxSerial == 2   \* ids drawn from the sequence of recurring_transactions

Todays == {DaysFromCivil(2024, 1, 1)}

\* What the model enters as income and as expense: the day relative to today,
\* the amount in cents and the description.
IncomeInputs ==
    {[off |-> 0, cents |-> 20, desc |-> "gift"]}
ExpenseInputs ==
    {[off |-> 1, cents |-> 20, desc |-> "food"]}

BalanceInputs == {10}

\* service.RecurringInput values.
RecurringInputs ==
    {[Description |-> "rent", Type |-> "expense", Amount |-> CentsToFloat(30),
      StartDate |-> DaysFromCivil(2023, 12, 26), Interval |-> " Weekly ",
      DayOfWeek |-> NilInt, DayOfMonth |-> NilInt,
      EndDate |-> PgDate(DaysFromCivil(2024, 1, 10)), Active |-> TRUE],
     [Description |-> "pay", Type |-> "income", Amount |-> CentsToFloat(20),
      StartDate |-> DaysFromCivil(2023, 12, 31), Interval |-> "monthly",
      DayOfWeek |-> NilInt, DayOfMonth |-> NilInt, EndDate |-> NullDate, Active |-> TRUE],
     [Description |-> "club", Type |-> "expense", Amount |-> CentsToFloat(20),
      StartDate |-> DaysFromCivil(2023, 12, 26), Interval |-> "weekly",
      DayOfWeek |-> NilInt, DayOfMonth |-> NilInt, EndDate |-> NullDate, Active |-> FALSE],
     [Description |-> "news", Type |-> "expense", Amount |-> CentsToFloat(30),
      StartDate |-> DaysFromCivil(2023, 12, 26), Interval |-> "daily",
      DayOfWeek |-> NilInt, DayOfMonth |-> NilInt, EndDate |-> NullDate, Active |-> TRUE]}

\* The days parameter of GET /forecast: absent, or a number.
DaysQueries ==
    {[Valid |-> FALSE, Int32 |-> 0]} \cup {[Valid |-> TRUE, Int32 |-> n] : n \in {1, 91}}

Idle ==
    /\ series = MkRecurring(0, "", "income", 0, 0, "weekly", Null, Null, NullDate, FALSE)
    /\ winA = 0 /\ winB = 0 /\ winC = 0
    /\ outAC = <<>> /\ outAB = <<>> /\ outBC = <<>>
    /\ phase = "idle"

Init ==
    /\ Idle
    /\ transactions = <<>> /\ recurrings = <<>>
    /\ setting = [Valid |-> FALSE, Value |-> 0]
    /\ nextID = [tx |-> 1, rec |-> 1]
    /\ today \in Todays
    /\ resp = [op |-> "none"]
    /\ req = NoRequest

\* transactions.sql: CreateTransaction.
CreateTransaction(date, amount, description, type) ==
    /\ transactions' = Append(transactions,
           [ID |-> nextID.tx, Date |-> date, Amount |-> amount,
            Description |-> description, Type |-> type])
    /\ nextID' = [nextID EXCEPT !.tx = @ + 1]

AddIncome(date, amount, description) ==
    /\ Len(transactions) < MaxTx
    /\ CreateTransaction(makePgDate(date), makePgNumeric(amount), description, "income")
    /\ resp' = [op |-> "AddIncome", err |-> Nil]
    /\ UNCHANGED <<expandVars, req, recurrings, setting, today>>

AddExpense(date, amount, description) ==
    /\ Len(transactions) < MaxTx
    /\ CreateTransaction(makePgDate(date), makePgNumeric(FNeg(amount)), description, "expense")
    /\ resp' = [op |-> "AddExpense", err |-> Nil]
    /\ UNCHANGED <<expandVars, req, recurrings, setting, today>>

\* settings.sql: UpdateSetting, an upsert of the starting_balance row.
SetStartingBalance(balance) ==
    /\ setting' = [Valid |-> TRUE, Value |-> FloatToCents(balance)]
    /\ resp' = [op |-> "SetStartingBalance", err |-> Nil, balance |-> balance]
    /\ UNCHANGED <<expandVars, req, transactions, recurrings, nextID, today>>

\* The error of the store on a value that is none of the enum's.
ErrInvalidEnum == "invalid input value for enum"

\* The error of INSERT INTO recurring_transactions on the row, Nil when the
\* row is stored: a value outside the enum recurrence_interval is refused
\* when the statement is bound, a row that fails a CHECK when it is inserted.
InsertError(row) ==
    IF row.Interval \notin {"weekly", "biweekly", "monthly", "yearly"} THEN ErrInvalidEnum
    ELSE IF ~RecurringChecks(row) THEN ErrCheckViolation
    ELSE Nil

\* recurring.sql: CreateRecurring.  The id is drawn from the sequence of the
\* SERIAL column before the CHECK constraints are tested, and the sequence
\* does not step back when the INSERT fails.
InsertRecurring(row) ==
    /\ recurrings' = IF InsertError(row) = Nil THEN Append(recurrings, row) ELSE recurrings
    /\ nextID' = IF InsertError(row) = ErrInvalidEnum THEN nextID
                 ELSE [nextID EXCEPT !.rec = @ + 1]

\* FinanceService.CreateRecurring: r holds the database.CreateRecurringParams.
CreateRecurring(r) ==
    /\ Len(recurrings) < MaxRec /\ nextID.rec <= MaxSerial
    /\ \E row \in {[r EXCEPT !.ID = nextID.rec]} :
           /\ InsertRecurring(row)
           /\ resp' = [op |-> "CreateRecurring", err |-> InsertError(row), in |-> r]
    /\ UNCHANGED <<expandVars, req, transactions, setting, today>>

\* CreateRecurringSimple storing the row without any validation.
CreateRecurringSimpleUnchecked(in) ==
    /\ Len(recurrings) < MaxRec /\ nextID.rec <= MaxSerial
    /\ recurrings' = Append(recurrings,
           MkRecurring(nextID.rec, in.Description, in.Type, makePgNumeric(in.Amount),
                       makePgDate(in.StartDate), ToLowerTrimSpace(in.Interval),
                       [Valid |-> in.DayOfWeek.Valid, Int32 |-> in.DayOfWeek.Lo],
                       [Valid |-> in.DayOfMonth.Valid, Int32 |-> in.DayOfMonth.Lo],
                       in.EndDate, in.Active))
    /\ nextID' = [nextID EXCEPT !.rec = @ + 1]
    /\ resp' = [op |-> "CreateRecurringSimple", err |-> Nil, in |-> in]
    /\ UNCHANGED <<expandVars, req, transactions, setting, today>>

CreateRecurringSimple(in) ==
    LET ival == parseIntervalEnum(in.Interval)
        row  == MkRecurring(nextID.rec, in.Description, in.Type, makePgNumeric(in.Amount),
                            makePgDate(in.StartDate), ival.value, ToInt4(in.DayOfWeek),
                            ToInt4(in.DayOfMonth), in.EndDate, in.Active)
    IN  /\ Len(recurrings) < MaxRec /\ nextID.rec <= MaxSerial
        /\ IF ~ival.ok
           THEN /\ resp' = [op |-> "CreateRecurringSimple", err |-> ErrInvalidInterval,
                            in |-> in]
                /\ UNCHANGED <<recurrings, nextID>>
           ELSE /\ InsertRecurring(row)
                /\ resp' = [op |-> "CreateRecurringSimple", err |-> InsertError(row),
                            in |-> in]
        /\ UNCHANGED <<expandVars, req, transactions, setting, today>>

\* The answer of a handler that serves the forecast, with the balance and the
\* one-offs the forecast was computed from.
ForecastResponse(op, fault, err, starting, oneOffs, days, body) ==
    [op |-> op, fault |-> fault, err |-> err, starting |-> starting, oneOffs |-> oneOffs,
     days |-> days, body |-> body]

\* GET /api/forecast removing the one-offs it has read.
handleGetForecastConsuming(fault) ==
    \/ /\ req = NoRequest
       /\ \E balance \in {GetStartingBalance(GetSetting(setting, fault))} :
              IF balance.err # Nil
              THEN /\ resp' = ForecastResponse("handleGetForecast", fault, balance.err,
                                               FZero, <<>>, ForecastDays, <<>>)
                   /\ req' = req
              ELSE /\ req' = [op |-> "handleGetForecast", fault |-> fault,
                              pc |-> "GetAllTransactions", starting |-> balance.value,
                              oneOffs |-> <<>>]
                   /\ resp' = resp
       /\ UNCHANGED <<expandVars, storeVars>>
    \/ /\ req.op = "handleGetForecast" /\ req.fault = fault
       /\ req.pc = "GetAllTransactions"
       /\ \E oneOffs \in {Query("GetAllTransactions", GetAllTransactions(transactions),
                                fault)} :
              IF oneOffs.err # Nil
              THEN /\ resp' = ForecastResponse(
                                  "handleGetForecast", fault,
                                  Calculate90DayForecast(oneOffs, NotQueried, today,
                                                         req.starting).err,
                                  req.starting, <<>>, ForecastDays, <<>>)
                   /\ req' = NoRequest
              ELSE /\ req' = [req EXCEPT !.pc = "ListActiveRecurring",
                                         !.oneOffs = oneOffs.rows]
                   /\ resp' = resp
       /\ transactions' = <<>>
       /\ UNCHANGED <<expandVars, recurrings, setting, nextID, today>>
    \/ /\ req.op = "handleGetForecast" /\ req.fault = fault
       /\ req.pc = "ListActiveRecurring"
       /\ \E forecast \in {Calculate90DayForecast(
                               [err |-> Nil, rows |-> req.oneOffs],
                               Query("ListActiveRecurring", ListActiveRecurring(recurrings),
                                     fault),
                               today, req.starting)} :
              resp' = ForecastResponse("handleGetForecast", fault, forecast.err,
                                       req.starting, req.oneOffs, ForecastDays, forecast.fc)
       /\ req' = NoRequest
       /\ UNCHANGED <<expandVars, storeVars>>

\* GET /api/forecast, one round trip to the store at a time: the starting
\* balance (GetSetting), then in Calculate90DayForecast the one-offs
\* (GetAllTransactions) and the active series (ListActiveRecurring), after
\* which the forecast is computed and served.  No transaction spans the three
\* queries: requests of other clients are served between them.  fault is the
\* query that fails during the request, if any.
handleGetForecast(fault) ==
    /\ \/ /\ req = NoRequest
          /\ \E balance \in {GetStartingBalance(GetSetting(setting, fault))} :
                 IF balance.err # Nil
                 THEN /\ resp' = ForecastResponse("handleGetForecast", fault, balance.err,
                                                  FZero, <<>>, ForecastDays, <<>>)
                      /\ req' = req
                 ELSE /\ req' = [op |-> "handleGetForecast", fault |-> fault,
                                 pc |-> "GetAllTransactions", starting |-> balance.value,
                                 oneOffs |-> <<>>]
                      /\ resp' = resp
       \/ /\ req.op = "handleGetForecast" /\ req.fault = fault
          /\ req.pc = "GetAllTransactions"
          /\ \E oneOffs \in {Query("GetAllTransactions", GetAllTransactions(transactions),
                                   fault)} :
                 IF oneOffs.err # Nil
                 THEN /\ resp' = ForecastResponse(
                                     "handleGetForecast", fault,
                                     Calculate90DayForecast(oneOffs, NotQueried, today,
                                                            req.starting).err,
                                     req.starting, <<>>, ForecastDays, <<>>)
                      /\ req' = NoRequest
                 ELSE /\ req' = [req EXCEPT !.pc = "ListActiveRecurring",
                                            !.oneOffs = oneOffs.rows]
                      /\ resp' = resp
       \/ /\ req.op = "handleGetForecast" /\ req.fault = fault
          /\ req.pc = "ListActiveRecurring"
          /\ \E forecast \in {Calculate90DayForecast(
                                  [err |-> Nil, rows |-> req.oneOffs],
                                  Query("ListActiveRecurring",
                                        ListActiveRecurring(recurrings), fault),
                                  today, req.starting)} :
                 resp' = ForecastResponse("handleGetForecast", fault, forecast.err,
                                          req.starting, req.oneOffs, ForecastDays,
                                          forecast.fc)
          /\ req' = NoRequest
    /\ UNCHANGED <<expandVars, storeVars>>

\* GET /forecast?days=q, one round trip to the store at a time.
handleForecast(q, fault) ==
    /\ \/ /\ req = NoRequest
          /\ \E starting \in {GetStartingBalance(GetSetting(setting, fault))} :
                 IF starting.err # Nil
                 THEN /\ resp' = ForecastResponse("handleForecast", fault, starting.err,
                                                  FZero, <<>>, ParseDays(q), <<>>)
                      /\ req' = req
                 ELSE /\ req' = [op |-> "handleForecast", fault |-> fault,
                                 pc |-> "GetAllTransactions", days |-> ParseDays(q),
                                 starting |-> starting.value, oneOffs |-> <<>>]
                      /\ resp' = resp
       \/ /\ req.op = "handleForecast" /\ req.fault = fault /\ req.days = ParseDays(q)
          /\ req.pc = "GetAllTransactions"
          /\ \E oneOffs \in {Query("GetAllTransactions", GetAllTransactions(transactions),
                                   fault)} :
                 IF oneOffs.err # Nil
                 THEN /\ resp' = ForecastResponse(
                                     "handleForecast", fault,
                                     Calculate90DayForecast(oneOffs, NotQueried, today,
                                                            req.starting).err,
                                     req.starting, <<>>, req.days, <<>>)
                      /\ req' = NoRequest
                 ELSE /\ req' = [req EXCEPT !.pc = "ListActiveRecurring",
                                            !.oneOffs = oneOffs.rows]
                      /\ resp' = resp
       \/ /\ req.op = "handleForecast" /\ req.fault = fault /\ req.days = ParseDays(q)
          /\ req.pc = "ListActiveRecurring"
          /\ \E forecast \in {Calculate90DayForecast(
                                  [err |-> Nil, rows |-> req.oneOffs],
                                  Query("ListActiveRecurring",
                                        ListActiveRecurring(recurrings), fault),
                                  today, req.starting)} :
                 resp' = ForecastResponse("handleForecast", fault, forecast.err,
                                          req.starting, req.oneOffs, req.days,
                                          IF forecast.err # Nil THEN <<>>
                                          ELSE ServeForecast(forecast.fc, req.days))
          /\ req' = NoRequest
    /\ UNCHANGED <<expandVars, storeVars>>

\* The answer to GET /api/transactions/between, with the one-offs fetched.
ListingResponse(fault, err, start, end, oneOffs, body) ==
    [op |-> "handleGetTransactionsBetween", fault |-> fault, err |-> err,
     start |-> start, end |-> end, oneOffs |-> oneOffs, body |-> body]

\* GET /api/transactions/between?start=..&end=.., one round trip to the store
\* at a time: in GetTransactionsWithRecurringsBetween the one-offs of the
\* window (GetTransactionsByDateRange), then the active series
\* (ListActiveRecurring), after which the two are merged and served.
handleGetTransactionsBetween(start, end, fault) ==
    /\ \/ /\ req = NoRequest
          /\ \E oneOffs \in {Query("GetTransactionsByDateRange",
                                   GetTransactionsByDateRange(
                                       transactions, makePgDate(start), makePgDate(end)),
                                   fault)} :
                 IF oneOffs.err # Nil
                 THEN /\ resp' = ListingResponse(
                                     fault,
                                     GetTransactionsWithRecurringsBetween(
                                         oneOffs, NotQueried, start, end).err,
                                     start, end, <<>>, <<>>)
                      /\ req' = req
                 ELSE /\ req' = [op |-> "handleGetTransactionsBetween", fault |-> fault,
                                 pc |-> "ListActiveRecurring", start |-> start,
                                 end |-> end, oneOffs |-> oneOffs.rows]
                      /\ resp' = resp
       \/ /\ req.op = "handleGetTransactionsBetween" /\ req.fault = fault
          /\ req.start = start /\ req.end = end
          /\ req.pc = "ListActiveRecurring"
          /\ \E items \in {GetTransactionsWithRecurringsBetween(
                               [err |-> Nil, rows |-> req.oneOffs],
                               Query("ListActiveRecurring", ListActiveRecurring(recurrings),
                                     fault),
                               start, end)} :
                 resp' = ListingResponse(fault, items.err, start, end, req.oneOffs,
                                         items.rows)
          /\ req' = NoRequest
    /\ UNCHANGED <<expandVars, storeVars>>

Next ==
    \/ \E in \in IncomeInputs : AddIncome(today + in.off, CentsToFloat(in.cents), in.desc)
    \/ \E in \in ExpenseInputs : AddExpense(today + in.off, CentsToFloat(in.cents), in.desc)
    \/ \E c \in BalanceInputs : SetStartingBalance(CentsToFloat(c))
    \/ \E in \in RecurringInputs : CreateRecurringSimple(in)
    \/ handleGetForecast(NoFault)
    \/ \E q \in DaysQueries : handleForecast(q, NoFault)

Spec == Init /\ [][Next]_vars

(***************************************************************************)
(* The ledger in use over a store that can fail: the entries are listed    *)
(* with the occurrences of the series, the starting balance is read back,  *)
(* series are entered through the HTTP API and through the CLI, and a      *)
(* query of the store may fail during a request.                           *)
(***************************************************************************)

\* GET /settings/starting-balance.
handleGetStartingBalance(fault) ==
    /\ \E val \in {GetStartingBalance(GetSetting(setting, fault))} :
           resp' = [op |-> "handleGetStartingBalance", fault |-> fault,
                    err |-> val.err, value |-> val.value]
    /\ UNCHANGED <<expandVars, req, storeVars>>

\* The error of the CLI on a day it does not accept.
ErrInvalidDay == "invalid day"

\* The CLI's "Recurring Menu", choice 2 (Add): `in` holds the answers typed.
manageRecurring(in) ==
    LET interval == ToLowerTrimSpace(in.Interval)
        askDOW   == interval \in {"weekly", "biweekly"} /\ in.DayOfWeek.Valid
        askDOM   == interval \in {"monthly", "yearly"} /\ in.DayOfMonth.Valid
        badDOW   == askDOW /\ ~(in.DayOfWeek.Hi = 0 /\ in.DayOfWeek.Lo \in 0..6)
        badDOM   == askDOM /\ ~(in.DayOfMonth.Hi = 0 /\ in.DayOfMonth.Lo \in 1..31)
    IN  IF badDOW \/ badDOM
        THEN /\ Len(recurrings) < MaxRec
             /\ resp' = [op |-> "manageRecurring", err |-> ErrInvalidDay, in |-> in]
             /\ UNCHANGED <<expandVars, req, storeVars>>
        ELSE CreateRecurringSimple(
                 [in EXCEPT !.Interval = interval,
                            !.DayOfWeek = IF askDOW THEN in.DayOfWeek ELSE NilInt,
                            !.DayOfMonth = IF askDOM THEN in.DayOfMonth ELSE NilInt,
                            !.Active = TRUE])

\* n / 8 as a float64, n < 4096.
Eighths(n) == FMake(FALSE, LMul(LPow2(FracBits - 3), n))

LedgerIncomeInputs ==
    {[off |-> 1, cents |-> 20, desc |-> "rent"], [off |-> 1, cents |-> 30, desc |-> "Zoo"]}
LedgerExpenseInputs ==
    {[off |-> 0, cents |-> 20, desc |-> "apple"]}

\* 0.125 and 0.375: balances with more than two decimals.
LedgerBalanceInputs == {Eighths(1), Eighths(3)}

\* A weekly expense from 2023-12-26 with the days of the request.
LedgerSeries(desc, interval, dow, dom) ==
    [Description |-> desc, Type |-> "expense", Amount |-> CentsToFloat(30),
     StartDate |-> DaysFromCivil(2023, 12, 26), Interval |-> interval,
     DayOfWeek |-> dow, DayOfMonth |-> dom,
     EndDate |-> PgDate(DaysFromCivil(2024, 1, 10)), Active |-> TRUE]

\* The series entered: a valid one, an interval that is none of the four,
\* days out of range, 4294967299 = 2^32 + 3 among them, and an amount of -0.30.
LedgerRecurringInputs ==
    {LedgerSeries("rent", " Weekly ", NilInt, NilInt),
     [LedgerSeries("gift", "weekly", NilInt, NilInt)
         EXCEPT !.Amount = FNeg(CentsToFloat(30))],
     LedgerSeries("news", "daily", NilInt, NilInt),
     LedgerSeries("club", "weekly", IntPtr(0, 7), NilInt),
     LedgerSeries("club", "weekly", IntPtr(1, 3), NilInt),
     LedgerSeries("pay", "monthly", NilInt, IntPtr(0, 32))}

\* The database.CreateRecurringParams handed to CreateRecurring: a weekly
\* series on weekday 3, and one on weekday 7.
LedgerParams ==
    {MkRecurring(0, "club", "expense", 30, DaysFromCivil(2023, 12, 26), "weekly",
                 Int4(dow), Null, PgDate(DaysFromCivil(2024, 1, 10)), TRUE) :
         dow \in {3, 7}}

\* The windows asked of GET /api/transactions/between, in days from today.
LedgerWindows == {[from |-> 0, to |-> 10], [from |-> 1, to |-> 7]}

\* The queries that fail.
Faults == {"GetSetting", "GetAllTransactions", "GetTransactionsByDateRange",
           "ListActiveRecurring"}

NextLedger ==
    \/ \E in \in LedgerIncomeInputs :
           AddIncome(today + in.off, CentsToFloat(in.cents), in.desc)
    \/ \E in \in LedgerExpenseInputs :
           AddExpense(today + in.off, CentsToFloat(in.cents), in.desc)
    \/ \E b \in LedgerBalanceInputs : SetStartingBalance(b)
    \/ \E in \in LedgerRecurringInputs : CreateRecurringSimple(in)
    \/ \E r \in LedgerParams : CreateRecurring(r)
    \/ \E in \in LedgerRecurringInputs : manageRecurring(in)
    \/ \E w \in LedgerWindows :
           handleGetTransactionsBetween(today + w.from, today + w.to, NoFault)
    \/ \E f \in {"GetTransactionsByDateRange", "ListActiveRecurring"} :
           handleGetTransactionsBetween(today, today + 10, f)
    \/ \E f \in {NoFault, "GetSetting"} : handleGetStartingBalance(f)
    \/ \E f \in {"GetAllTransactions", "ListActiveRecurring"} : handleGetForecast(f)

SpecLedger == Init /\ [][NextLedger]_vars

(***************************************************************************)
(* What a forecast is expected to hold, stated from the store.             *)
(***************************************************************************)

\* The response in hand is the full result of Calculate90DayForecast, with the
\* balance and the one-offs the request read.
FullForecast == resp.op = "handleGetForecast" /\ resp.err = Nil

\* The rows of a list of transactions that are dated d.
Dated(items, d) == SelectSeq(items, LAMBDA t : t.Date = d)

RECURSIVE SumAmounts(_, _)
\* The float64 sum of the amounts of items[1..n], added in this order.
SumAmounts(items, n) ==
    IF n = 0 THEN FZero
    ELSE FAdd(SumAmounts(items, n - 1), NumericToFloat64(items[n].Amount))

RECURSIVE SumCents(_, _)
\* The sum of the amounts of items[1..n] in cents.
SumCents(items, n) ==
    IF n = 0 THEN 0 ELSE SumCents(items, n - 1) + items[n].Amount

RECURSIVE RunningChanges(_, _, _)
\* The running float64 sums of the changes of entries i, i + 1, ... of forecast
\* fc, on top of sum.
RunningChanges(fc, i, sum) ==
    IF i > Len(fc) THEN <<>>
    ELSE LET next == FAdd(sum, fc[i].Change)
         IN  <<next>> \o RunningChanges(fc, i + 1, next)

\* The float64 sum of the changes of all days of forecast fc, added in order.
SumChanges(fc) == RunningChanges(fc, 1, FZero)[Len(fc)]

RECURSIVE OccurrencesOf(_, _, _)
\* The occurrences of the series rs[1..n] in the forecast window from `from`.
OccurrencesOf(rs, n, from) ==
    IF n = 0 THEN <<>>
    ELSE OccurrencesOf(rs, n - 1, from) \o expandOne(rs[n], from, from + ForecastDays - 1)

\* The one-offs the request fetched, then the occurrences of the series that
\* are active when the forecast is computed.
Entries ==
    LET active == SelectSeq(recurrings, LAMBDA r : r.Active)
    IN  resp.oneOffs \o OccurrencesOf(active, Len(active), today)

\* C4: in every forecast the balance of day 0 is startingBalance plus the
\* change of day 0, the balance of each later day is the balance of the day
\* before plus the day's change, and startingBalance plus the sum of all the
\* daily changes is the final day's balance exactly.
C4_NoRoundingDrift ==
    FullForecast =>
        LET fc == resp.body
            n  == Len(fc)
        IN  /\ fc[1].Balance = FAdd(resp.starting, fc[1].Change)
            /\ \A i \in 2..n : fc[i].Balance = FAdd(fc[i - 1].Balance, fc[i].Change)
            /\ FAdd(resp.starting, SumChanges(fc)) = fc[n].Balance

\* C5: for every day D of the forecast window the reported change is the sum
\* of the amounts of the stored one-offs dated D and of the occurrences dated D
\* of every active series expanded over the window, and 0 when there is none.
\* The one-offs are the stored ones, in date order, when the request fetches
\* them; the series are the active ones when the forecast is computed.
C5_ChangeIsDaySum ==
    /\ [](FullForecast =>
             \A i \in 1..ForecastDays :
                 LET onDay == Dated(Entries, today + i - 1)
                     entry == resp.body[i]
                 IN  /\ entry.Date = today + i - 1
                     /\ entry.Change = SumAmounts(onDay, Len(onDay))
                     /\ FloatToCents(entry.Change) = SumCents(onDay, Len(onDay))
                     /\ onDay = <<>> => entry.Change = FZero)
    /\ [][ (req.op = "handleGetForecast" /\ req.pc = "GetAllTransactions"
               /\ req'.op = "handleGetForecast" /\ req'.pc = "ListActiveRecurring") =>
              req'.oneOffs = SortByDate(transactions)
         ]_vars

\* A day with a one-off and an occurrence of an active series, and a day with
\* neither.
C5_Witness ==
    /\ FullForecast
    /\ \E i \in 1..ForecastDays :
           /\ Dated(resp.oneOffs, today + i - 1) # <<>>
           /\ Len(Dated(Entries, today + i - 1)) > Len(Dated(resp.oneOffs, today + i - 1))
           /\ resp.body[i].Change # FZero
    /\ \E i \in 1..ForecastDays : Dated(Entries, today + i - 1) = <<>>

\* C6: a forecast asked for numDays days, 1 <= numDays <= 365, has exactly
\* numDays entries, entry i dated windowStart + i.
C6_ExactlyNumDays ==
    (resp.op = "handleForecast" /\ resp.err = Nil) =>
        /\ Len(resp.body) = resp.days
        /\ \A i \in 1..Len(resp.body) : resp.body[i].Date = today + i - 1

(***************************************************************************)
(* FindLowestPoint on its own: a forecast of a few days is drawn from      *)
(* bounded sets and the function is applied to it.                         *)
(***************************************************************************)

MaxForecastLen == 4

\* The balances of the forecasts tried, in cents.
LowBalances == {-50000, 0, 100000}

\* The forecast from `now` with the balances bal (in cents) day by day.
ForecastOf(now, bal) ==
    [i \in 1..Len(bal) |->
        [Date    |-> AddDays(now, i - 1),
         Balance |-> CentsToFloat(bal[i]),
         Change  |-> CentsToFloat(bal[i] - (IF i = 1 THEN 0 ELSE bal[i - 1]))]]

InitLowest ==
    /\ Idle
    /\ transactions = <<>> /\ recurrings = <<>>
    /\ setting = [Valid |-> FALSE, Value |-> 0]
    /\ nextID = [tx |-> 1, rec |-> 1]
    /\ today \in Todays
    /\ \E n \in 0..MaxForecastLen :
           \E bal \in [1..n -> LowBalances] :
               resp = [op |-> "forecast", body |-> ForecastOf(today, bal)]
    /\ req = NoRequest

\* FindLowestPoint applied to the forecast in hand.
FindLowest ==
    /\ resp.op = "forecast"
    /\ \E low \in {FindLowestPoint(resp.body)} :
           resp' = [op |-> "FindLowestPoint", forecast |-> resp.body, err |-> Nil,
                    lowest |-> low.lowest, index |-> low.index]
    /\ UNCHANGED <<expandVars, req, storeVars>>

NextLowest == FindLowest

SpecLowest == InitLowest /\ [][NextLowest]_vars

\* C14: on a non-empty forecast FindLowestPoint returns the entry of minimum
\* balance with its index, the smallest index among the entries of that balance.
C14_LeftmostMinimum ==
    (resp.op = "FindLowestPoint" /\ resp.forecast # <<>>) =>
        LET fc == resp.forecast
            k  == resp.index + 1
        IN  /\ k \in 1..Len(fc)
            /\ resp.lowest = fc[k]
            /\ \A j \in 1..Len(fc) :
                   FloatToCents(fc[j].Balance) >= FloatToCents(fc[k].Balance)
            /\ \A j \in 1..(k - 1) :
                   FloatToCents(fc[j].Balance) > FloatToCents(fc[k].Balance)

\* The forecast 1000, -500, -500: the minimum is reached twice, first on day 1.
C14_Witness ==
    /\ resp.op = "FindLowestPoint"
    /\ Len(resp.forecast) = 3
    /\ FloatToCents(resp.forecast[1].Balance) = 100000
    /\ FloatToCents(resp.forecast[2].Balance) = -50000
    /\ FloatToCents(resp.forecast[3].Balance) = -50000
    /\ resp.index = 1

\* C15: FindLowestPoint on an empty forecast is reported as an explicit
\* failure, never as a zero-valued day.
C15_EmptyIsAnError ==
    (resp.op = "FindLowestPoint" /\ resp.forecast = <<>>) =>
        /\ resp.err # Nil
        /\ resp.lowest # ZeroDay

(***************************************************************************)
(* What the ledger's answers are expected to hold.                         *)
(***************************************************************************)

\* The listing in hand, with the one-offs the request fetched.
Listed == resp.op = "handleGetTransactionsBetween" /\ resp.err = Nil

\* The one-offs fetched for the listing in hand, and the occurrences projected
\* from the series that are active when the listing is computed.
FetchedOneOffs == resp.oneOffs

\* The stored one-offs dated in [from, to].
StoredBetween(from, to) ==
    SelectSeq(transactions, LAMBDA t : from <= t.Date /\ t.Date <= to)

RECURSIVE ProjectedFrom(_, _)
ProjectedFrom(rs, n) ==
    IF n = 0 THEN <<>>
    ELSE ProjectedFrom(rs, n - 1) \o expandOne(rs[n], resp.start, resp.end)

Projected ==
    LET active == SelectSeq(recurrings, LAMBDA r : r.Active)
    IN  ProjectedFrom(active, Len(active))

\* How often x occurs in seq.
Count(seq, x) == Cardinality({i \in 1..Len(seq) : seq[i] = x})

\* The descriptions of the model in case-sensitive lexical order.
Lexical == <<"Zoo", "apple", "club", "food", "gift", "news", "pay", "rent", "rental">>

Rank(str) == CHOOSE i \in 1..Len(Lexical) : Lexical[i] = str

\* C13: the listing holds every fetched one-off and every projected occurrence
\* exactly once (m + n entries), ascending by date and, on equal dates, by
\* case-sensitive lexical order of description; entries equal in both keep
\* their input order, one-offs before projected occurrences.  The one-offs
\* fetched are the stored ones of the window when the request fetches them.
C13_StableMerge ==
    /\ [](Listed =>
             LET body == resp.body
                 all  == FetchedOneOffs \o Projected
             IN  /\ Len(body) = Len(FetchedOneOffs) + Len(Projected)
                 /\ \A i \in 1..Len(all) : Count(body, all[i]) = Count(all, all[i])
                 /\ \A i \in 1..Len(body), j \in 1..Len(body) :
                        i < j =>
                            /\ body[i].Date <= body[j].Date
                            /\ body[i].Date = body[j].Date =>
                                   Rank(body[i].Description) <= Rank(body[j].Description)
                            /\ (body[i].Date = body[j].Date
                                   /\ body[i].Description = body[j].Description) =>
                                   /\ body[j].ID = 0 \/ body[i].ID # 0
                                   /\ (body[i].ID # 0 /\ body[j].ID # 0) =>
                                          body[i].ID < body[j].ID)
    /\ [][ (req.op = "none" /\ req'.op = "handleGetTransactionsBetween") =>
              LET want == StoredBetween(req'.start, req'.end)
              IN  /\ Len(req'.oneOffs) = Len(want)
                  /\ \A i \in 1..Len(want) :
                         Count(req'.oneOffs, want[i]) = Count(want, want[i])
         ]_vars

\* A listing where a one-off and an occurrence share date and description, and
\* an upper-case description sorts before a lower-case one entered earlier.
C13_Witness ==
    /\ Listed
    /\ \E i \in 1..Len(resp.body), j \in 1..Len(resp.body) :
           /\ i < j /\ resp.body[i].Date = resp.body[j].Date
           /\ resp.body[i].Description = "rent" /\ resp.body[j].Description = "rent"
           /\ resp.body[i].ID # 0 /\ resp.body[j].ID = 0
    /\ \E i \in 1..Len(resp.body), j \in 1..Len(resp.body) :
           /\ i < j /\ resp.body[i].Date = resp.body[j].Date
           /\ resp.body[i].Description = "Zoo" /\ resp.body[j].Description = "rent"
           /\ resp.body[j].ID # 0 /\ resp.body[i].ID > resp.body[j].ID


(***************************************************************************)
(* Failures of the store, the starting balance, and the validation of a    *)
(* series at creation.                                                     *)
(***************************************************************************)

\* C16: when fetching the one-offs or listing the active series fails,
\* Calculate90DayForecast returns the error and no forecast at all.
C16_NoPartialForecast ==
    (resp.op = "handleGetForecast"
        /\ resp.fault \in {"GetAllTransactions", "ListActiveRecurring"}) =>
        /\ resp.err = StoreError(resp.fault)
        /\ resp.body = <<>>

\* The series cannot be listed while one-offs are in the store.
C16_Witness ==
    /\ resp.op = "handleGetForecast"
    /\ resp.fault = "ListActiveRecurring"
    /\ resp.oneOffs # <<>>
    /\ resp.err = StoreError("ListActiveRecurring")

\* C17: every error of the store surfaces unmodified to the caller of the
\* operation during which it happened; a failure to read the setting is
\* never answered with a balance.
C17_StoreErrorsSurface ==
    (resp.op \in {"handleGetForecast", "handleGetTransactionsBetween",
                  "handleGetStartingBalance"}
        /\ resp.fault # NoFault) =>
        resp.err = StoreError(resp.fault)

\* What GetStartingBalance returns on the store as it stands.
StoredBalance == GetStartingBalance(GetSetting(setting, NoFault))

\* C18: without a stored setting GetStartingBalance returns 0 and no error;
\* with one it returns the stored value, so that after SetStartingBalance(b)
\* it returns b rounded to two decimals (b = n/8 here, and the result is the
\* float64 of c/100 for an integer c with |100 b - c| <= 1/2).
C18_StartingBalanceRoundTrip ==
    /\ ~setting.Valid =>
           StoredBalance = [err |-> Nil, value |-> FZero]
    /\ (resp.op = "handleGetStartingBalance" /\ resp.fault = NoFault) =>
           /\ resp.err = Nil
           /\ resp.value = IF setting.Valid THEN CentsToFloat(setting.Value) ELSE FZero
    /\ resp.op = "SetStartingBalance" =>
           \E n \in 0..8, c \in 0..100 :
               /\ resp.balance = Eighths(n)
               /\ 100 * n - 8 * c \in -4..4
               /\ StoredBalance = [err |-> Nil, value |-> CentsToFloat(c)]

\* 0.375 was set and is read back as 0.38.
C18_Witness ==
    /\ resp.op = "handleGetStartingBalance"
    /\ resp.fault = NoFault
    /\ setting.Valid
    /\ resp.value = CentsToFloat(38)

\* The interval, trimmed and lower-cased, is none of the four.
InvalidInterval(s) ==
    ToLowerTrimSpace(s) \notin {"weekly", "biweekly", "monthly", "yearly"}

\* C19: creating a series whose interval is none of weekly, biweekly, monthly,
\* yearly fails with an error and stores nothing, so every stored series has
\* one of the four intervals when it is expanded.
C19_InvalidIntervalRejected ==
    [][ /\ (resp'.op = "CreateRecurringSimple" /\ InvalidInterval(resp'.in.Interval)) =>
               /\ resp'.err # Nil
               /\ recurrings' = recurrings
        /\ \A i \in 1..Len(recurrings') :
               recurrings'[i].Interval \in {"weekly", "biweekly", "monthly", "yearly"}
      ]_vars

\* The interval "daily" was refused.
C19_Witness ==
    /\ resp.op = "CreateRecurringSimple"
    /\ resp.in.Interval = "daily"
    /\ resp.err = ErrInvalidInterval

\* The day p of a request is given and outside lo..hi.
OutOfRange(p, lo, hi) == p.Valid /\ ~(p.Hi = 0 /\ p.Lo \in lo..hi)

\* C20: creating a series with a day-of-week outside 0..6 or a day-of-month
\* outside 1..31 is rejected with an error, through the CLI and through the
\* HTTP API.
C20_OutOfRangeDayRejected ==
    (resp.op \in {"CreateRecurringSimple", "manageRecurring"}
        /\ (OutOfRange(resp.in.DayOfWeek, 0, 6) \/ OutOfRange(resp.in.DayOfMonth, 1, 31))) =>
        resp.err # Nil


\* C21: every stored series has a strictly positive magnitude, so an expense
\* series never projects a positive amount and an income series never a
\* negative one.
C21_PositiveMagnitude ==
    /\ \A i \in 1..Len(recurrings) : recurrings[i].Amount > 0
    /\ (resp.op = "handleGetTransactionsBetween" /\ resp.err = Nil) =>
           \A i \in 1..Len(resp.body) :
               resp.body[i].ID = 0 =>
                   IF resp.body[i].Type = "expense" THEN resp.body[i].Amount <= 0
                   ELSE resp.body[i].Amount >= 0


(***************************************************************************)
(* The life of a series: it is created, switched off and on, and deleted,  *)
(* while listings, forecasts and the lowest point are asked for.  The      *)
(* store starts with one one-off and a starting balance.                   *)
(***************************************************************************)

\* recurring.sql: SetRecurringActive (UPDATE ... WHERE id = $1; no row is no error).
SetRecurringActive(id, active) ==
    /\ recurrings' = [i \in 1..Len(recurrings) |->
                         IF recurrings[i].ID = id
                         THEN [recurrings[i] EXCEPT !.Active = active]
                         ELSE recurrings[i]]
    /\ resp' = [op |-> "SetRecurringActive", err |-> Nil, id |-> id, active |-> active]
    /\ UNCHANGED <<expandVars, req, transactions, setting, nextID, today>>

\* recurring.sql: DeleteRecurring (DELETE ... WHERE id = $1).
DeleteRecurring(id) ==
    /\ nextID.rec <= MaxSerial
    /\ recurrings' = SelectSeq(recurrings, LAMBDA r : r.ID # id)
    /\ resp' = [op |-> "DeleteRecurring", err |-> Nil, id |-> id]
    /\ UNCHANGED <<expandVars, req, transactions, setting, nextID, today>>

\* The answer of GET /api/forecast/lowest: calls lists the service methods
\* invoked, in order, and oneOffs the one-offs the forecast was computed from.
LowestResponse(fault, status, err, calls, starting, oneOffs, forecast, low) ==
    [op |-> "handleGetLowestPoint", fault |-> fault, status |-> status, err |-> err,
     calls |-> calls, starting |-> starting, oneOffs |-> oneOffs, forecast |-> forecast,
     lowest |-> low.lowest, index |-> low.index]

\* The handler that goes on to FindLowestPoint when an earlier step failed.
handleGetLowestPointLenient(fault) ==
    /\ \/ /\ req = NoRequest
          /\ \E balance \in {GetStartingBalance(GetSetting(setting, fault))} :
                 /\ req' = [op |-> "handleGetLowestPoint", fault |-> fault,
                            pc |-> "GetAllTransactions", starting |-> balance.value,
                            oneOffs |-> <<>>]
                 /\ resp' = resp
       \/ /\ req.op = "handleGetLowestPoint" /\ req.fault = fault
          /\ req.pc = "GetAllTransactions"
          /\ \E oneOffs \in {Query("GetAllTransactions", GetAllTransactions(transactions),
                                   fault)} :
                 IF oneOffs.err # Nil
                 THEN /\ resp' = LowestResponse(fault, 200, Nil,
                                     <<"GetStartingBalance", "Calculate90DayForecast",
                                       "FindLowestPoint">>,
                                     req.starting, <<>>, <<>>, FindLowestPoint(<<>>))
                      /\ req' = NoRequest
                 ELSE /\ req' = [req EXCEPT !.pc = "ListActiveRecurring",
                                            !.oneOffs = oneOffs.rows]
                      /\ resp' = resp
       \/ /\ req.op = "handleGetLowestPoint" /\ req.fault = fault
          /\ req.pc = "ListActiveRecurring"
          /\ \E forecast \in {Calculate90DayForecast(
                                  [err |-> Nil, rows |-> req.oneOffs],
                                  Query("ListActiveRecurring",
                                        ListActiveRecurring(recurrings), fault),
                                  today, req.starting)} :
                 resp' = LowestResponse(fault, 200, Nil,
                             <<"GetStartingBalance", "Calculate90DayForecast",
                               "FindLowestPoint">>,
                             req.starting, req.oneOffs, forecast.fc,
                             FindLowestPoint(forecast.fc))
          /\ req' = NoRequest
    /\ UNCHANGED <<expandVars, storeVars>>

\* GET /api/forecast/lowest, one round trip to the store at a time: the
\* starting balance, then in Calculate90DayForecast the one-offs and the
\* active series, then FindLowestPoint on the forecast computed.
handleGetLowestPoint(fault) ==
    /\ \/ /\ req = NoRequest
          /\ \E balance \in {GetStartingBalance(GetSetting(setting, fault))} :
                 IF balance.err # Nil
                 THEN /\ resp' = LowestResponse(fault, 500, balance.err,
                                                <<"GetStartingBalance">>, FZero, <<>>, <<>>,
                                                [lowest |-> ZeroDay, index |-> 0])
                      /\ req' = req
                 ELSE /\ req' = [op |-> "handleGetLowestPoint", fault |-> fault,
                                 pc |-> "GetAllTransactions", starting |-> balance.value,
                                 oneOffs |-> <<>>]
                      /\ resp' = resp
       \/ /\ req.op = "handleGetLowestPoint" /\ req.fault = fault
          /\ req.pc = "GetAllTransactions"
          /\ \E oneOffs \in {Query("GetAllTransactions", GetAllTransactions(transactions),
                                   fault)} :
                 IF oneOffs.err # Nil
                 THEN /\ resp' = LowestResponse(
                                     fault, 500,
                                     Calculate90DayForecast(oneOffs, NotQueried, today,
                                                            req.starting).err,
                                     <<"GetStartingBalance", "Calculate90DayForecast">>,
                                     req.starting, <<>>, <<>>,
                                     [lowest |-> ZeroDay, index |-> 0])
                      /\ req' = NoRequest
                 ELSE /\ req' = [req EXCEPT !.pc = "ListActiveRecurring",
                                            !.oneOffs = oneOffs.rows]
                      /\ resp' = resp
       \/ /\ req.op = "handleGetLowestPoint" /\ req.fault = fault
          /\ req.pc = "ListActiveRecurring"
          /\ \E forecast \in {Calculate90DayForecast(
                                  [err |-> Nil, rows |-> req.oneOffs],
                                  Query("ListActiveRecurring",
                                        ListActiveRecurring(recurrings), fault),
                                  today, req.starting)} :
                 IF forecast.err # Nil
                 THEN resp' = LowestResponse(fault, 500, forecast.err,
                                  <<"GetStartingBalance", "Calculate90DayForecast">>,
                                  req.starting, req.oneOffs, <<>>,
                                  [lowest |-> ZeroDay, index |-> 0])
                 ELSE resp' = LowestResponse(fault, 200, Nil,
                                  <<"GetStartingBalance", "Calculate90DayForecast",
                                    "FindLowestPoint">>,
                                  req.starting, req.oneOffs, forecast.fc,
                                  FindLowestPoint(forecast.fc))
          /\ req' = NoRequest
    /\ UNCHANGED <<expandVars, storeVars>>

\* The series created: the weekly rent and the monthly pay.
SeriesInputs == {in \in RecurringInputs : in.Description \in {"rent", "pay"}}

InitSeries ==
    /\ Idle
    /\ today \in Todays
    /\ transactions = <<[ID |-> 1, Date |-> today + 1, Amount |-> 20,
                         Description |-> "gift", Type |-> "income"]>>
    /\ recurrings = <<>>
    /\ setting = [Valid |-> TRUE, Value |-> 10]
    /\ nextID = [tx |-> 2, rec |-> 1]
    /\ resp = [op |-> "none"]
    /\ req = NoRequest

NextSeries ==
    \/ \E in \in SeriesInputs : CreateRecurringSimple(in)
    \/ \E id \in 1..MaxSerial, active \in BOOLEAN : SetRecurringActive(id, active)
    \/ \E id \in 1..MaxSerial : DeleteRecurring(id)
    \/ handleGetTransactionsBetween(today, today + 10, NoFault)
    \/ handleGetForecast(NoFault)
    \/ \E f \in {NoFault, "GetSetting", "GetAllTransactions", "ListActiveRecurring"} :
           handleGetLowestPoint(f)

SpecSeries == InitSeries /\ [][NextSeries]_vars

\* The stored series that are active, picked from the table row by row.
StoredActive == {i \in 1..Len(recurrings) : recurrings[i].Active = TRUE}

RECURSIVE OccurrencesOfRows(_, _, _)
\* The occurrences in [from, to] of the rows 1..n of the table that are active,
\* how often each occurs.
OccurrencesOfRows(n, from, to) ==
    IF n = 0 THEN <<>>
    ELSE OccurrencesOfRows(n - 1, from, to)
             \o (IF n \in StoredActive THEN expandOne(recurrings[n], from, to) ELSE <<>>)

\* The entries of a listing that are occurrences of a series.
OccurrencesIn(body) == SelectSeq(body, LAMBDA t : t.ID = 0)

\* C22: a listing and a forecast hold the occurrences of exactly the series
\* that are stored and active when they are computed: a series switched off
\* or deleted contributes nothing, one switched on again contributes again.
C22_ExactlyActiveSeries ==
    /\ (resp.op = "handleGetTransactionsBetween" /\ resp.err = Nil) =>
           LET want == OccurrencesOfRows(Len(recurrings), resp.start, resp.end)
               got  == OccurrencesIn(resp.body)
           IN  /\ Len(got) = Len(want)
               /\ \A i \in 1..Len(want) : Count(got, want[i]) = Count(want, want[i])
    /\ (resp.op = "handleGetForecast" /\ resp.err = Nil) =>
           LET want == OccurrencesOfRows(Len(recurrings), today, today + ForecastDays - 1)
           IN  \A i \in 1..ForecastDays :
                   LET onDay == Dated(resp.oneOffs \o want, today + i - 1)
                   IN  FloatToCents(resp.body[i].Change) = SumCents(onDay, Len(onDay))

\* The rent was created and switched off: it is stored, and the listing and
\* the forecast hold none of its occurrences.
C22_Witness ==
    /\ Len(recurrings) = 1
    /\ recurrings[1].Description = "rent" /\ ~recurrings[1].Active
    /\ \/ resp.op = "handleGetTransactionsBetween" /\ OccurrencesIn(resp.body) = <<>>
       \/ resp.op = "handleGetForecast" /\ resp.body[2].Change = CentsToFloat(20)


\* The requests that read: forecast, listing, lowest point.
ReadOps == {"handleGetForecast", "handleGetTransactionsBetween", "handleGetLowestPoint"}

\* C23: Calculate90DayForecast, ExpandRecurringBetween,
\* GetTransactionsWithRecurringsBetween and FindLowestPoint leave the stored
\* one-offs, the stored series and the starting-balance setting unchanged, and
\* the forecast handed to FindLowestPoint is afterwards still the forecast
\* that was computed.  Every round trip of such a request is a step.
C23_ReadsChangeNothing ==
    [][ (req' # req \/ resp'.op \in ReadOps) =>
           /\ transactions' = transactions
           /\ recurrings' = recurrings
           /\ setting' = setting
           /\ (resp'.op = "handleGetLowestPoint" /\ resp'.err = Nil) =>
                  /\ Len(resp'.forecast) = ForecastDays
                  /\ \A i \in 1..ForecastDays :
                         /\ resp'.forecast[i].Date = today + i - 1
                         /\ resp'.forecast[i].Balance =
                                FAdd(IF i = 1 THEN resp'.starting
                                     ELSE resp'.forecast[i - 1].Balance,
                                     resp'.forecast[i].Change)
      ]_vars

\* The lowest point was asked for on a store holding a one-off, a series and a
\* starting balance.
C23_Witness ==
    /\ resp.op = "handleGetLowestPoint" /\ resp.err = Nil
    /\ transactions # <<>> /\ recurrings # <<>> /\ setting.Valid

\* C25: GET /api/forecast/lowest invokes GetStartingBalance, then
\* Calculate90DayForecast with the balance just read, then FindLowestPoint on
\* the forecast just computed; when a step fails the answer is 500 and no
\* later step is invoked; on success day_index is the index of lowest_point
\* in that forecast.
C25_LowestPointSteps ==
    /\ [](resp.op = "handleGetLowestPoint" =>
        LET steps == <<"GetStartingBalance", "Calculate90DayForecast", "FindLowestPoint">>
            n     == Len(resp.calls)
        IN  /\ n \in 1..3 /\ resp.calls = SubSeq(steps, 1, n)
            /\ resp.fault \in {"GetAllTransactions", "ListActiveRecurring"} =>
                   /\ resp.status = 500
                   /\ resp.err = StoreError(resp.fault)
                   /\ n = 2
            /\ resp.err # Nil => resp.status = 500 /\ n < 3
            /\ resp.err = Nil =>
                   /\ resp.status = 200 /\ n = 3
                   /\ resp.forecast[1].Balance =
                          FAdd(resp.starting, resp.forecast[1].Change)
                   /\ resp.index + 1 \in 1..Len(resp.forecast)
                   /\ resp.forecast[resp.index + 1] = resp.lowest
                   /\ \A i \in 1..Len(resp.forecast) :
                          ~FLess(resp.forecast[i].Balance, resp.lowest.Balance))
    /\ [][ /\ (req.op = "none" /\ req'.op = "handleGetLowestPoint"
                  /\ req'.fault = NoFault) =>
                 req'.starting = StoredBalance.value
           /\ (req.op = "handleGetLowestPoint" /\ req'.op = "none"
                  /\ resp'.op = "handleGetLowestPoint" /\ resp'.err = Nil) =>
                 /\ resp'.starting = req.starting
                 /\ resp'.forecast =
                        Calculate90DayForecast(
                            [err |-> Nil, rows |-> req.oneOffs],
                            [err |-> Nil, rows |-> ListActiveRecurring(recurrings)],
                            today, req.starting).fc
         ]_vars

\* With the rent active the balance is lowest on 2024-01-09, day 8.
C25_Witness ==
    /\ resp.op = "handleGetLowestPoint" /\ resp.err = Nil
    /\ resp.index = 8
    /\ resp.lowest.Date = today + 8


(***************************************************************************)
(* The HTTP API in front of the service: a request carries its dates as    *)
(* text, here a sequence of characters, and the handler parses them before *)
(* it calls the service.                                                   *)
(***************************************************************************)

\* The value of a decimal digit, -1 for any other character.
DigitValue(c) ==
    CASE c = "0" -> 0 [] c = "1" -> 1 [] c = "2" -> 2 [] c = "3" -> 3 [] c = "4" -> 4
      [] c = "5" -> 5 [] c = "6" -> 6 [] c = "7" -> 7 [] c = "8" -> 8 [] c = "9" -> 9
      [] OTHER -> -1

\* The number written by the digits text[from..to], -1 when one is no digit.
RECURSIVE Number(_, _, _)
Number(text, from, to) ==
    IF to < from THEN 0
    ELSE LET high == Number(text, from, to - 1)
             low  == DigitValue(text[to])
         IN  IF high < 0 \/ low < 0 THEN -1 ELSE 10 * high + low

\* The days of month m of year y (package time: daysIn).
daysIn(m, y) ==
    IF m = 2 THEN (IF (y % 4 = 0 /\ y % 100 # 0) \/ y % 400 = 0 THEN 29 ELSE 28)
    ELSE IF m \in {4, 6, 9, 11} THEN 30 ELSE 31

\* time.Parse("2006-01-02", text) that lets time.Date normalise month and day.
ParseLayoutDateLenient(text) ==
    LET y == Number(text, 1, 4)
        m == Number(text, 6, 7)
        d == Number(text, 9, 10)
    IN  IF Len(text) # 10 \/ text[5] # "-" \/ text[8] # "-" \/ y < 0 \/ m < 0 \/ d < 0
        THEN [ok |-> FALSE, date |-> 0]
        ELSE [ok |-> TRUE, date |-> GoDate(y, m, d)]

\* time.Parse("2006-01-02", text): four digits, two, two, with the month in
\* 1..12 and the day within the month.
ParseLayoutDate(text) ==
    LET y == Number(text, 1, 4)
        m == Number(text, 6, 7)
        d == Number(text, 9, 10)
    IN  IF Len(text) # 10 \/ text[5] # "-" \/ text[8] # "-" \/ y < 0 \/ m < 0 \/ d < 0
        THEN [ok |-> FALSE, date |-> 0]
        ELSE IF m \notin 1..12 \/ d < 1 \/ d > daysIn(m, y)
        THEN [ok |-> FALSE, date |-> 0]
        ELSE [ok |-> TRUE, date |-> DaysFromCivil(y, m, d)]

\* parseDate of the API: the first layout that parses.  The three layouts
\* with a time of day need 20 characters or more; no text entered here is
\* that long.
parseDate(text) == ParseLayoutDate(text)

\* Status codes.
StatusOK == 200
StatusCreated == 201
StatusBadRequest == 400
StatusInternalServerError == 500

\* POST /api/transactions/income and /expense: in is the decoded body.
handleAddTransaction(op, in) ==
    \E date \in {parseDate(in.Date)} :
        IF ~date.ok
        THEN /\ resp' = [op |-> op, status |-> StatusBadRequest, calls |-> <<>>,
                         req |-> in]
             /\ UNCHANGED <<expandVars, req, storeVars>>
        ELSE /\ Len(transactions) < MaxTx
             /\ IF op = "handleAddIncome"
                THEN CreateTransaction(makePgDate(date.date), makePgNumeric(in.Amount),
                                       in.Description, "income")
                ELSE CreateTransaction(makePgDate(date.date),
                                       makePgNumeric(FNeg(in.Amount)),
                                       in.Description, "expense")
             /\ resp' = [op |-> op, status |-> StatusCreated,
                         calls |-> <<IF op = "handleAddIncome" THEN "AddIncome"
                                     ELSE "AddExpense">>,
                         req |-> in]
             /\ UNCHANGED <<expandVars, req, recurrings, setting, today>>

handleAddIncome(in) == handleAddTransaction("handleAddIncome", in)

handleAddExpense(in) == handleAddTransaction("handleAddExpense", in)

\* GET /api/transactions/between with its query parameters as sent, the empty
\* text for a parameter that is absent.
handleGetTransactionsBetweenQuery(startStr, endStr, fault) ==
    LET sent == [start |-> startStr, end |-> endStr]
        bad  == [op |-> "handleGetTransactionsBetween", status |-> StatusBadRequest,
                 calls |-> <<>>, req |-> sent, oneOffs |-> <<>>, body |-> <<>>]
        Answer(items, oneOffs) ==
            [op |-> "handleGetTransactionsBetween",
             status |-> IF items.err # Nil THEN StatusInternalServerError ELSE StatusOK,
             calls |-> <<"GetTransactionsWithRecurringsBetween">>,
             req |-> sent, oneOffs |-> oneOffs, body |-> items.rows]
    IN  /\ \/ /\ req = NoRequest
              /\ IF startStr = <<>> \/ endStr = <<>>
                 THEN resp' = bad /\ req' = req
                 ELSE \E start \in {parseDate(startStr)}, end \in {parseDate(endStr)} :
                          IF ~start.ok \/ ~end.ok
                          THEN resp' = bad /\ req' = req
                          ELSE \E oneOffs \in {Query("GetTransactionsByDateRange",
                                                     GetTransactionsByDateRange(
                                                         transactions,
                                                         makePgDate(start.date),
                                                         makePgDate(end.date)), fault)} :
                                   IF oneOffs.err # Nil
                                   THEN /\ resp' = Answer(
                                                 GetTransactionsWithRecurringsBetween(
                                                     oneOffs, NotQueried, start.date,
                                                     end.date), <<>>)
                                        /\ req' = req
                                   ELSE /\ req' = [op |-> "handleGetTransactionsBetween",
                                                   fault |-> fault,
                                                   pc |-> "ListActiveRecurring",
                                                   sent |-> sent, start |-> start.date,
                                                   end |-> end.date,
                                                   oneOffs |-> oneOffs.rows]
                                        /\ resp' = resp
           \/ /\ req.op = "handleGetTransactionsBetween" /\ req.fault = fault
              /\ "sent" \in DOMAIN req /\ req.sent = sent
              /\ req.pc = "ListActiveRecurring"
              /\ \E items \in {GetTransactionsWithRecurringsBetween(
                                   [err |-> Nil, rows |-> req.oneOffs],
                                   Query("ListActiveRecurring",
                                         ListActiveRecurring(recurrings), fault),
                                   req.start, req.end)} :
                     resp' = Answer(items, req.oneOffs)
              /\ req' = NoRequest
        /\ UNCHANGED <<expandVars, storeVars>>

\* The texts sent as dates: two dates, a day and a month that do not exist,
\* another notation, single digits, and nothing.
DateTexts ==
    {<<"2", "0", "2", "4", "-", "0", "1", "-", "0", "2">>,
     <<"2", "0", "2", "4", "-", "0", "2", "-", "2", "9">>,
     <<"2", "0", "2", "4", "-", "0", "2", "-", "3", "0">>,
     <<"2", "0", "2", "4", "-", "1", "3", "-", "0", "1">>,
     <<"0", "1", "/", "0", "2", "/", "2", "0", "2", "4">>,
     <<"2", "0", "2", "4", "-", "1", "-", "2">>,
     <<>>}

\* The bodies posted.
TransactionRequests ==
    {[Date |-> t, Amount |-> CentsToFloat(20), Description |-> "gift"] : t \in DateTexts}

\* The start and end sent to the listing: each text as start before
\* 2024-02-29, and each text as end after 2024-01-02.
WindowTexts ==
    {<<t, <<"2", "0", "2", "4", "-", "0", "2", "-", "2", "9">>>> : t \in DateTexts}
    \cup {<<<<"2", "0", "2", "4", "-", "0", "1", "-", "0", "2">>, t>> : t \in DateTexts}

NextHttp ==
    \/ \E in \in TransactionRequests : handleAddIncome(in)
    \/ \E in \in TransactionRequests : handleAddExpense(in)
    \/ \E w \in WindowTexts : handleGetTransactionsBetweenQuery(w[1], w[2], NoFault)

SpecHttp == Init /\ [][NextHttp]_vars

\* The texts that are dates in the notation YYYY-MM-DD.
GoodDateTexts ==
    {<<"2", "0", "2", "4", "-", "0", "1", "-", "0", "2">>,
     <<"2", "0", "2", "4", "-", "0", "2", "-", "2", "9">>}

\* The request answered by the response r failed validation.
FailsValidation(r) ==
    \/ r.op \in {"handleAddIncome", "handleAddExpense"} /\ r.req.Date \notin GoodDateTexts
    \/ r.op = "handleGetTransactionsBetween" /\ "req" \in DOMAIN r
          /\ (r.req.start \notin GoodDateTexts \/ r.req.end \notin GoodDateTexts)

\* C24: a request whose date does not parse (income, expense) or whose start
\* or end is missing or does not parse (listing) is answered with 400, no
\* method of the service is invoked, and the store is unchanged.
C24_InvalidRequestIs400 ==
    [][ FailsValidation(resp') =>
           /\ resp'.status = StatusBadRequest
           /\ resp'.calls = <<>>
           /\ UNCHANGED storeVars
      ]_vars

\* February 30 was posted as the date of an income and refused.
C24_Witness ==
    /\ resp.op = "handleAddIncome"
    /\ resp.req.Date = <<"2", "0", "2", "4", "-", "0", "2", "-", "3", "0">>
    /\ resp.status = StatusBadRequest


(***************************************************************************)
(* One-offs around the forecast window: entered the day before the window, *)
(* on its first day and the day after its last, and deleted again.         *)
(***************************************************************************)

MaxTxSerial == 3     \* ids handed out by table transactions before deletes stop

\* transactions.sql: DeleteTransaction (DELETE ... WHERE id = $1).
DeleteTransaction(id) ==
    /\ nextID.tx <= MaxTxSerial
    /\ transactions' = SelectSeq(transactions, LAMBDA t : t.ID # id)
    /\ resp' = [op |-> "DeleteTransaction", err |-> Nil, id |-> id]
    /\ UNCHANGED <<expandVars, req, recurrings, setting, nextID, today>>

\* The days of the one-offs entered, relative to today.
WindowOffsets == {-1, 0, ForecastDays}

NextWindow ==
    \/ \E off \in WindowOffsets : AddIncome(today + off, CentsToFloat(20), "gift")
    \/ \E id \in 1..MaxTxSerial : DeleteTransaction(id)
    \/ handleGetForecast(NoFault)

SpecWindow == Init /\ [][NextWindow]_vars

\* The one-offs fetched that are dated inside the forecast window.
InWindow == SelectSeq(resp.oneOffs,
                      LAMBDA t : today <= t.Date /\ t.Date <= today + ForecastDays - 1)

\* C28: a one-off dated before the first or after the last day of the forecast
\* window changes no entry of the forecast: the forecast is the one computed
\* from the one-offs dated inside the window, each day's change being the sum
\* of the one-offs of that day.
C28_OutsideWindowIgnored ==
    FullForecast =>
        /\ resp.body = Calculate90DayForecast(
                           Query("GetAllTransactions", GetAllTransactions(InWindow), NoFault),
                           Query("ListActiveRecurring", ListActiveRecurring(recurrings),
                                 NoFault),
                           today, resp.starting).fc
        /\ \A i \in 1..ForecastDays :
               LET onDay == Dated(InWindow, today + i - 1)
               IN  /\ FloatToCents(resp.body[i].Change) = SumCents(onDay, Len(onDay))
                   /\ resp.body[i].Balance =
                          FAdd(IF i = 1 THEN resp.starting ELSE resp.body[i - 1].Balance,
                               resp.body[i].Change)

\* A forecast computed with a one-off the day before the window and one the
\* day after it in the store, after a deletion.
C28_Witness ==
    /\ FullForecast
    /\ \E i \in 1..Len(resp.oneOffs) : resp.oneOffs[i].Date = today - 1
    /\ \E i \in 1..Len(resp.oneOffs) : resp.oneOffs[i].Date = today + ForecastDays
    /\ nextID.tx > Len(transactions) + 1
    /\ resp.body[1].Balance = resp.starting


(***************************************************************************)
(* A forecast request served while other requests write to the store.  The *)
(* server runs each request on its own goroutine and the forecast issues   *)
(* its three queries one after the other, outside any transaction: each    *)
(* query is a step of handleGetForecast, and a write may fall between two  *)
(* steps.  While the request is in flight, req also holds the states the   *)
(* store went through since the request began (seen).                      *)
(***************************************************************************)

MaxWrites == 2     \* writes that fall into one forecast request

\* The store as it stands.
Snapshot == [transactions |-> transactions, recurrings |-> recurrings, setting |-> setting]

\* The states the store went through since the request in flight began.
StatesSeen == IF "seen" \in DOMAIN req THEN req.seen ELSE <<Snapshot>>

\* The balance set, in cents.
RaceBalances == {10}

\* A write of another request, served to completion: one of the seven writes
\* the routes offer.  It does not touch what the forecast request has read;
\* the state it leaves is noted when that request is in flight.
ConcurrentWrite ==
    /\ req.op # "none" => Len(StatesSeen) <= MaxWrites
    /\ \/ /\ \E c \in RaceBalances : setting' = [Valid |-> TRUE, Value |-> c]
          /\ UNCHANGED <<transactions, recurrings, nextID>>
       \/ /\ nextID.tx <= MaxTx
          /\ CreateTransaction(makePgDate(today), makePgNumeric(CentsToFloat(20)),
                               "gift", "income")
          /\ UNCHANGED <<recurrings, setting>>
       \/ /\ nextID.tx <= MaxTx
          /\ CreateTransaction(makePgDate(today + 1),
                               makePgNumeric(FNeg(CentsToFloat(30))), "apple", "expense")
          /\ UNCHANGED <<recurrings, setting>>
       \/ /\ transactions' = SelectSeq(transactions, LAMBDA t : t.ID # 1)
          /\ UNCHANGED <<recurrings, setting, nextID>>
       \/ /\ nextID.rec <= MaxRec
          /\ InsertRecurring(
                 MkRecurring(nextID.rec, "rent", "expense", makePgNumeric(CentsToFloat(30)),
                             makePgDate(DaysFromCivil(2023, 12, 26)), "weekly", Null, Null,
                             PgDate(DaysFromCivil(2024, 1, 10)), TRUE))
          /\ UNCHANGED <<transactions, setting>>
       \/ /\ \E active \in BOOLEAN :
                 recurrings' = [i \in 1..Len(recurrings) |->
                                   IF recurrings[i].ID = 1
                                   THEN [recurrings[i] EXCEPT !.Active = active]
                                   ELSE recurrings[i]]
          /\ UNCHANGED <<transactions, setting, nextID>>
       \/ /\ recurrings' = SelectSeq(recurrings, LAMBDA r : r.ID # 1)
          /\ UNCHANGED <<transactions, setting, nextID>>
    /\ req' = IF req.op = "none" THEN req
              ELSE [f \in DOMAIN req \cup {"seen"} |->
                       IF f = "seen" THEN Append(StatesSeen, Snapshot') ELSE req[f]]
    /\ UNCHANGED <<expandVars, resp, today>>

NextRace ==
    \/ handleGetForecast(NoFault)
    \/ ConcurrentWrite

SpecRace == Init /\ [][NextRace]_vars

\* The forecast of the store state s.
ForecastOfState(s) ==
    Calculate90DayForecast(
        [err |-> Nil, rows |-> GetAllTransactions(s.transactions)],
        [err |-> Nil, rows |-> ListActiveRecurring(s.recurrings)],
        today,
        GetStartingBalance(GetSetting(s.setting, NoFault)).value).fc

\* C27: a forecast served while writes go on is the forecast of one single
\* state the store was in between the start and the end of the request.
C27_ForecastOfOneState ==
    [][ (req.op = "handleGetForecast" /\ req'.op = "none") =>
            \E i \in 1..Len(StatesSeen) : resp'.body = ForecastOfState(StatesSeen[i])
      ]_vars


(***************************************************************************)
(* expandOne iteration by iteration: each pass through the alignment loop  *)
(* and through the weekly, monthly and yearly emission loops is a step.    *)
(* series is the series, [winA, winC] the window, phase the loop the call  *)
(* is in, and resp the frame of the call: the effective range, the         *)
(* candidate date d, the month (y, m) it stands at, and the dates of the   *)
(* occurrences emitted so far.                                             *)
(***************************************************************************)

\* The locals of a call of expandOne: the effective range, the candidate
\* date d, the year and month counters, and the dates of the occurrences
\* appended so far.
Frame(start, end, d, y, m, out) ==
    [op |-> "expandOne", start |-> start, end |-> end, d |-> d, y |-> y, m |-> m,
     out |-> out]

\* The day a monthly or yearly series falls on.
SeriesDay(r) ==
    IF r.DayOfMonth.Valid THEN r.DayOfMonth.Int32 ELSE Civil(truncateDay(r.StartDate)).Day

\* The weekday a weekly or biweekly series falls on, and its step.
SeriesDOW(r) ==
    IF r.DayOfWeek.Valid THEN r.DayOfWeek.Int32 ELSE Weekday(truncateDay(r.StartDate))
SeriesStep(r) == IF r.Interval = "biweekly" THEN 14 ELSE 7

\* expandOne up to the first loop: the early returns, the effective range and
\* the initial candidate of the expander chosen by the interval.
LoopEnter(a, c) ==
    /\ phase = "input"
    /\ winA' = a /\ winC' = c
    /\ LET r        == series
           anchor   == truncateDay(r.StartDate)
           winStart == maxDate(a, r.StartDate)
           winEnd   == IF r.EndDate.Valid /\ r.EndDate.Time < c THEN r.EndDate.Time ELSE c
           y0       == Civil(winStart).Year
           m0       == Civil(winStart).Month
           month    == Civil(anchor).Month
           cand0    == dateAtDayOrMonthEnd(y0, month, SeriesDay(r))
       IN  IF r.StartDate > c \/ (r.EndDate.Valid /\ r.EndDate.Time < a)
           THEN /\ phase' = "done"
                /\ resp' = Frame(a, c, 0, 0, 0, <<>>)
           ELSE CASE r.Interval \in {"weekly", "biweekly"} ->
                       /\ phase' = "align"
                       /\ resp' = Frame(winStart, winEnd, anchor, 0, 0, <<>>)
                  [] r.Interval = "monthly" ->
                       /\ phase' = "monthly"
                       /\ resp' = Frame(winStart, winEnd,
                                        dateAtDayOrMonthEnd(y0, m0, SeriesDay(r)),
                                        y0, m0, <<>>)
                  [] r.Interval = "yearly" ->
                       /\ phase' = "yearly"
                       /\ resp' = IF cand0 < winStart
                                  THEN Frame(winStart, winEnd,
                                             dateAtDayOrMonthEnd(y0 + 1, month, SeriesDay(r)),
                                             y0 + 1, month, <<>>)
                                  ELSE Frame(winStart, winEnd, cand0, y0, month, <<>>)
                  [] OTHER ->
                       /\ phase' = "done"
                       /\ resp' = Frame(winStart, winEnd, 0, 0, 0, <<>>)
    /\ UNCHANGED <<series, winB, outAC, outAB, outBC, storeVars, req>>

\* One pass of the loop of alignToNextOnPhase; past the loop, the snap to the
\* wanted weekday, which gives the first candidate of the emission loop.
AlignStep ==
    /\ phase = "align"
    /\ IF resp.d < resp.start
       THEN /\ resp' = [resp EXCEPT !.d = AddDays(@, SeriesStep(series))]
            /\ phase' = phase
       ELSE /\ resp' = [resp EXCEPT !.d = IF SeriesDOW(series) >= 0
                                          THEN snapToWeekday(@, SeriesDOW(series))
                                          ELSE @]
            /\ phase' = "weekly"
    /\ UNCHANGED <<series, winA, winB, winC, outAC, outAB, outBC, storeVars, req>>

\* One pass of the loop of expandWeeklyLike that steps from the candidate
\* back to itself.
WeeklyStepStuck ==
    /\ phase = "weekly"
    /\ IF resp.d > resp.end
       THEN phase' = "done" /\ resp' = resp
       ELSE /\ resp' = [resp EXCEPT !.out = Append(@, resp.d)]
            /\ phase' = phase
    /\ UNCHANGED <<series, winA, winB, winC, outAC, outAB, outBC, storeVars, req>>

\* One pass of the loop of expandWeeklyLike.
WeeklyStep ==
    /\ phase = "weekly"
    /\ IF resp.d > resp.end
       THEN phase' = "done" /\ resp' = resp
       ELSE LET e == IF Weekday(resp.d) # SeriesDOW(series)
                     THEN snapToWeekday(resp.d, SeriesDOW(series)) ELSE resp.d
            IN  /\ resp' = [resp EXCEPT !.out = Append(@, e),
                                        !.d = AddDays(e, SeriesStep(series))]
                /\ phase' = phase
    /\ UNCHANGED <<series, winA, winB, winC, outAC, outAB, outBC, storeVars, req>>

\* One pass of the loop of expandMonthly.
MonthlyStep ==
    /\ phase = "monthly"
    /\ IF resp.d > resp.end
       THEN phase' = "done" /\ resp' = resp
       ELSE LET y    == IF resp.m = 12 THEN resp.y + 1 ELSE resp.y
                m    == IF resp.m = 12 THEN 1 ELSE resp.m + 1
                emit == resp.d >= resp.start /\ resp.d >= truncateDay(series.StartDate)
            IN  /\ resp' = [resp EXCEPT
                               !.out = IF emit THEN Append(@, resp.d) ELSE @,
                               !.y = y, !.m = m,
                               !.d = dateAtDayOrMonthEnd(y, m, SeriesDay(series))]
                /\ phase' = phase
    /\ UNCHANGED <<series, winA, winB, winC, outAC, outAB, outBC, storeVars, req>>

\* One pass of the loop of expandYearly.
YearlyStep ==
    /\ phase = "yearly"
    /\ IF resp.d > resp.end
       THEN phase' = "done" /\ resp' = resp
       ELSE LET emit == resp.d >= truncateDay(series.StartDate)
            IN  /\ resp' = [resp EXCEPT
                               !.out = IF emit THEN Append(@, resp.d) ELSE @,
                               !.y = @ + 1,
                               !.d = dateAtDayOrMonthEnd(resp.y + 1, resp.m,
                                                         SeriesDay(series))]
                /\ phase' = phase
    /\ UNCHANGED <<series, winA, winB, winC, outAC, outAB, outBC, storeVars, req>>

\* The series stepped through: weekly and biweekly ones without a weekday and
\* with one that is not the anchor's, monthly ones on the anchor's day and on
\* the 31st, yearly ones on the anchor's day and on the 15th.
LoopSeries ==
    {r \in ExpandSeries :
        /\ r.DayOfWeek \in {Null, Int4(3)}
        /\ r.DayOfMonth \in {Null, Int4(15), Int4(31)}
        /\ r.StartDate \in WeeklyAnchors \cup {DaysFromCivil(2024, 1, 30)}
                               \cup {DaysFromCivil(2020, 2, 29)}}

InitLoop == InitExpand /\ series \in LoopSeries

NextLoop ==
    \/ \E a \in WindowStarts(series), k \in RightLens(series) : LoopEnter(a, a + k)
    \/ AlignStep
    \/ WeeklyStep
    \/ MonthlyStep
    \/ YearlyStep

\* The call is scheduled until it returns.
SpecLoop == InitLoop /\ [][NextLoop]_vars /\ WF_vars(NextLoop)

\* C29: expandOne terminates for every series with a valid interval and every
\* finite window: each pass of the alignment loop and of the weekly, monthly
\* and yearly loops moves the candidate date strictly forward, the emission
\* loops stop once the candidate is past the effective range end, and the
\* call returns with the occurrences expandOne returns.
C29_ExpandOneTerminates ==
    /\ [][ /\ (phase \in {"align", "weekly", "monthly", "yearly"} /\ phase' = phase) =>
                  resp'.d > resp.d
           /\ (phase \in {"weekly", "monthly", "yearly"} /\ phase' = "done") =>
                  resp.d > resp.end
           /\ phase' = "done" =>
                  [i \in 1..Len(resp'.out) |-> toTxFromRecurring(series, resp'.out[i])]
                      = expandOne(series, winA', winC')
         ]_vars
    /\ <>(phase = "done")

\* A biweekly call that went through the alignment loop and emitted twice.
C29_Witness ==
    /\ phase = "done"
    /\ series.Interval = "biweekly"
    /\ winA > series.StartDate
    /\ Len(resp.out) >= 2

(***************************************************************************)
(* The CLI (internal/app): Run reads the starting balance, asks for one    *)
(* when it is 0, and enters the main loop, which shows the menu, reads a   *)
(* choice and runs its action.  phase is "start" until mainLoop is         *)
(* entered, "menu" while the loop runs, "exited" once mainLoop has         *)
(* returned and "failed" when Run returned before it; resp is what the     *)
(* last pass printed and called, and req where the action in progress      *)
(* stands between two round trips to the store or at a prompt.  The store  *)
(* is shared with the API server: its writes fall between the steps.  An   *)
(* answer typed is a sequence of characters.                               *)
(***************************************************************************)

RECURSIVE LNumberFrom(_, _, _, _)
\* The number written by the digits read so far, acc, followed by text[i..to];
\* reading stops once the top limb is in use, the number being beyond every
\* int by then.
LNumberFrom(text, i, to, acc) ==
    IF acc[NumLimbs] > 0 \/ i > to THEN acc
    ELSE LNumberFrom(text, i + 1, to,
                     LAdd(LMul(acc, 10), LFromInt(DigitValue(text[i]))))

\* The number written by the digits text[from..to], as limbs.
LNumber(text, from, to) == LNumberFrom(text, from, to, LZero)

\* The sizes of int of the builds: GOARCH 386 or arm, and amd64 or arm64.
IntSizes == {32, 64}

\* strconv.Atoi on a build whose int has `bits` bits: an optional sign and
\* decimal digits, in the range of int.  [ok, neg, mag]: the value is
\* (+/-) mag; a text that is no number or out of range is not ok.
Atoi(text, bits) ==
    LET signed == Len(text) > 0 /\ text[1] \in {"+", "-"}
        from   == IF signed THEN 2 ELSE 1
        digits == from <= Len(text) /\ \A i \in from..Len(text) : DigitValue(text[i]) >= 0
        neg    == signed /\ text[1] = "-"
        bad    == [ok |-> FALSE, neg |-> FALSE, mag |-> LZero]
        Ranged(mag) ==
            IF LCmp(mag, LPow2(bits - 1)) < 0 \/ (neg /\ mag = LPow2(bits - 1))
            THEN [ok |-> TRUE, neg |-> neg /\ mag # LZero, mag |-> mag]
            ELSE bad
    IN  IF ~digits THEN bad ELSE Ranged(LNumber(text, from, Len(text)))

\* int32(n) for the int n = [neg, mag]: the low 32 bits, read as two's
\* complement.
Int32(n) ==
    LET low31 == LShiftRightInt(LLowBits(n.mag, 31), 0)
        bit31 == LBit(n.mag, 31)
    IN  IF ~n.neg
        THEN (IF bit31 = 0 THEN low31 ELSE (low31 - 2147483647) - 1)
        ELSE IF bit31 = 0 THEN -low31
        ELSE IF low31 = 0 THEN (-2147483647) - 1
        ELSE (2147483647 - low31) + 1

\* strconv.ParseFloat(text, 64) on the amounts typed: an optional sign, digits
\* and at most two decimals give the float64 nearest to the amount; a text
\* with any other character of the texts entered is no number.
ParseFloat(text) ==
    LET signed  == Len(text) > 0 /\ text[1] \in {"+", "-"}
        from    == IF signed THEN 2 ELSE 1
        dots    == {i \in from..Len(text) : text[i] = "."}
        dot     == IF dots = {} THEN Len(text) + 1 ELSE CHOOSE i \in dots : i - 1 \notin dots
        whole   == Number(text, from, dot - 1)
        frac    == Number(text, dot + 1, Len(text))
        fracLen == IF dot > Len(text) THEN 0 ELSE Len(text) - dot
        cents   == 100 * whole + (IF fracLen = 1 THEN 10 * frac ELSE frac)
    IN  IF whole < 0 \/ frac < 0 \/ (dot - from) + fracLen < 1
        THEN [ok |-> FALSE, value |-> FZero]
        ELSE [ok |-> TRUE,
              value |-> IF signed /\ text[1] = "-" THEN FNeg(CentsToFloat(cents))
                        ELSE CentsToFloat(cents)]

\* time.Parse with the layouts "01/02/2006" and "1/2/2006": a month and a day
\* of one or two digits (the second layout parses what the first does) and a
\* year of four.
ParseSlashDate(text) ==
    LET bad   == [ok |-> FALSE, date |-> 0]
        mLen  == IF Len(text) >= 2 /\ DigitValue(text[2]) >= 0 THEN 2 ELSE 1
        dFrom == mLen + 2
        dLen  == IF Len(text) >= dFrom + 1 /\ DigitValue(text[dFrom + 1]) >= 0 THEN 2 ELSE 1
        yFrom == dFrom + dLen + 1
        m     == Number(text, 1, mLen)
        d     == Number(text, dFrom, dFrom + dLen - 1)
        y     == Number(text, yFrom, yFrom + 3)
    IN  IF Len(text) # yFrom + 3 THEN bad
        ELSE IF text[mLen + 1] # "/" \/ text[dFrom + dLen] # "/" THEN bad
        ELSE IF m < 0 \/ d < 0 \/ y < 0 THEN bad
        ELSE IF m \notin 1..12 \/ d < 1 \/ d > daysIn(m, y) THEN bad
        ELSE [ok |-> TRUE, date |-> DaysFromCivil(y, m, d)]

\* parseDate of the CLI: the first layout that parses.  The layouts
\* "Jan 2, 2006" and "January 2, 2006" begin with the name of a month; no
\* text entered here begins with a letter.
appParseDate(text) ==
    IF ParseLayoutDate(text).ok THEN ParseLayoutDate(text) ELSE ParseSlashDate(text)

\* The answer to the prompt for an id: not asked for, or the text typed.
NoAnswer == [asked |-> FALSE, text |-> <<>>]
Answer(text) == [asked |-> TRUE, text |-> text]

\* What a pass of the main loop leaves behind: the choice read, the answer to
\* the prompt for an id, the error the action returned, what mainLoop printed
\* after it, and the ids DeleteTransaction was called with.
MenuPass(choice, answer, err, calls) ==
    [op |-> "mainLoop", choice |-> choice, answer |-> answer, err |-> err,
     printed |-> IF err # Nil THEN "Error: " \o err
                 ELSE IF choice = "8" THEN "Goodbye!"
                 ELSE IF choice \notin {"1", "2", "3", "4", "5", "6", "7"}
                 THEN "Invalid choice. Please try again."
                 ELSE "",
     calls |-> calls]

MaxEntered == 2     \* ids handed out by table transactions before the CLI stops adding

\* case "1" and case "2": addIncome and addExpense, with the answers typed.
addTransaction(choice, dateStr, amountStr, description, fault) ==
    /\ phase = "menu" /\ req = NoRequest
    /\ \E date \in {appParseDate(dateStr)}, amount \in {ParseFloat(amountStr)} :
           IF ~date.ok
           THEN /\ resp' = MenuPass(choice, NoAnswer, "error parsing date", <<>>)
                /\ UNCHANGED storeVars
           ELSE IF ~amount.ok
           THEN /\ resp' = MenuPass(choice, NoAnswer, "invalid amount", <<>>)
                /\ UNCHANGED storeVars
           ELSE IF fault = "CreateTransaction"
           THEN /\ resp' = MenuPass(choice, NoAnswer,
                                    IF choice = "1" THEN "failed to add income"
                                    ELSE "failed to add expense", <<>>)
                /\ UNCHANGED storeVars
           ELSE /\ Len(transactions) < MaxTx /\ nextID.tx <= MaxEntered
                /\ IF choice = "1"
                   THEN CreateTransaction(makePgDate(date.date),
                                          makePgNumeric(amount.value), description, "income")
                   ELSE CreateTransaction(makePgDate(date.date),
                                          makePgNumeric(FNeg(amount.value)), description,
                                          "expense")
                /\ resp' = MenuPass(choice, NoAnswer, Nil, <<>>)
                /\ UNCHANGED <<recurrings, setting, today>>
    /\ UNCHANGED <<expandVars, req>>

addIncome(dateStr, amountStr, description, fault) ==
    addTransaction("1", dateStr, amountStr, description, fault)

addExpense(dateStr, amountStr, description, fault) ==
    addTransaction("2", dateStr, amountStr, description, fault)

\* The first query of GetTransactionsWithRecurringsBetween for the window from
\* `before` days before today to `after` days after it.
RangeQuery(before, after, fault) ==
    Query("GetTransactionsByDateRange",
          GetTransactionsByDateRange(transactions, makePgDate(AddDays(today, -before)),
                                     makePgDate(AddDays(today, after))), fault)

\* GetTransactionsWithRecurringsBetween from its second query on, for the
\* same window and the one-offs fetched.
LoadTransactions(oneOffs, before, after, fault) ==
    GetTransactionsWithRecurringsBetween(
        [err |-> Nil, rows |-> oneOffs],
        Query("ListActiveRecurring", ListActiveRecurring(recurrings), fault),
        AddDays(today, -before), AddDays(today, after))

\* viewTransactions as run for the menu choice: the entries of the 30 days
\* before and after today are loaded by a range query and a query of the
\* active series, two round trips.  Once loaded, the action goes on at `next`
\* when there is more to do, and returns otherwise.
LoadAndList(choice, fault, next) ==
    \/ /\ req = NoRequest
       /\ \E oneOffs \in {RangeQuery(30, 30, fault)} :
              IF oneOffs.err # Nil
              THEN /\ resp' = MenuPass(choice, NoAnswer, "failed to load transactions", <<>>)
                   /\ req' = req
              ELSE /\ req' = [op |-> choice, fault |-> fault, pc |-> "ListActiveRecurring",
                              oneOffs |-> oneOffs.rows]
                   /\ resp' = resp
    \/ /\ req.op = choice /\ req.fault = fault /\ req.pc = "ListActiveRecurring"
       /\ \E loaded \in {LoadTransactions(req.oneOffs, 30, 30, fault)} :
              IF loaded.err # Nil
              THEN /\ resp' = MenuPass(choice, NoAnswer, "failed to load transactions", <<>>)
                   /\ req' = NoRequest
              ELSE IF next = "return"
              THEN /\ resp' = MenuPass(choice, NoAnswer, Nil, <<>>)
                   /\ req' = NoRequest
              ELSE /\ req' = [op |-> choice, fault |-> fault, pc |-> next]
                   /\ resp' = resp

\* case "3".
viewTransactions(fault) ==
    /\ phase = "menu"
    /\ LoadAndList("3", fault, "return")
    /\ UNCHANGED <<expandVars, storeVars>>

\* case "4": the entries are listed as by viewTransactions, the one-offs are
\* fetched, and the id is asked for; idStr is the answer to the prompt, on a
\* build whose int has `bits` bits.
deleteTransaction(idStr, bits, fault) ==
    /\ phase = "menu"
    /\ \/ /\ LoadAndList("4", fault, "GetAllTransactions")
          /\ UNCHANGED storeVars
       \/ /\ req.op = "4" /\ req.fault = fault /\ req.pc = "GetAllTransactions"
          /\ \E all \in {Query("GetAllTransactions", GetAllTransactions(transactions),
                               fault)} :
                 IF all.err # Nil \/ Len(all.rows) = 0
                 THEN /\ resp' = MenuPass("4", NoAnswer, Nil, <<>>)
                      /\ req' = NoRequest
                 ELSE /\ req' = [req EXCEPT !.pc = "getUserInput"]
                      /\ resp' = resp
          /\ UNCHANGED storeVars
       \/ /\ req.op = "4" /\ req.fault = fault /\ req.pc = "getUserInput"
          /\ \E id \in {Atoi(idStr, bits)} :
                 IF ~id.ok \/ id.neg
                 THEN /\ resp' = MenuPass("4", Answer(idStr), "invalid ID", <<>>)
                      /\ UNCHANGED storeVars
                 ELSE IF id.mag = LZero
                 THEN /\ resp' = MenuPass("4", Answer(idStr), Nil, <<>>)
                      /\ UNCHANGED storeVars
                 ELSE IF fault = "DeleteTransaction"
                 THEN /\ resp' = MenuPass("4", Answer(idStr),
                                          "failed to delete transaction", <<Int32(id)>>)
                      /\ UNCHANGED storeVars
                 ELSE /\ transactions' = SelectSeq(transactions,
                                                   LAMBDA t : t.ID # Int32(id))
                      /\ resp' = MenuPass("4", Answer(idStr), Nil, <<Int32(id)>>)
                      /\ UNCHANGED <<recurrings, setting, nextID, today>>
          /\ req' = NoRequest
    /\ UNCHANGED expandVars

\* case "5": the starting balance is read, the forecast is computed from the
\* one-offs and the active series (Calculate90DayForecast) and displayed, and
\* the entries of the next 30 days are loaded (GetUpcomingTransactions): five
\* round trips.
generateForecast(fault) ==
    /\ phase = "menu"
    /\ \/ /\ req = NoRequest
          /\ req' = [op |-> "5", fault |-> fault, pc |-> "GetAllTransactions",
                     starting |-> GetStartingBalance(GetSetting(setting, fault)).value]
          /\ resp' = resp
       \/ /\ req.op = "5" /\ req.fault = fault /\ req.pc = "GetAllTransactions"
          /\ \E oneOffs \in {Query("GetAllTransactions", GetAllTransactions(transactions),
                                   fault)} :
                 IF oneOffs.err # Nil
                 THEN /\ resp' = MenuPass("5", NoAnswer, "failed to generate forecast", <<>>)
                      /\ req' = NoRequest
                 ELSE /\ req' = [op |-> "5", fault |-> fault, pc |-> "ListActiveRecurring",
                                 starting |-> req.starting, oneOffs |-> oneOffs.rows]
                      /\ resp' = resp
       \/ /\ req.op = "5" /\ req.fault = fault /\ req.pc = "ListActiveRecurring"
          /\ \E forecast \in {Calculate90DayForecast(
                                  [err |-> Nil, rows |-> req.oneOffs],
                                  Query("ListActiveRecurring",
                                        ListActiveRecurring(recurrings), fault),
                                  today, req.starting).err} :
                 IF forecast # Nil
                 THEN /\ resp' = MenuPass("5", NoAnswer, "failed to generate forecast", <<>>)
                      /\ req' = NoRequest
                 ELSE /\ req' = [op |-> "5", fault |-> fault,
                                 pc |-> "GetTransactionsByDateRange"]
                      /\ resp' = resp
       \/ /\ req.op = "5" /\ req.fault = fault /\ req.pc = "GetTransactionsByDateRange"
          /\ \E oneOffs \in {RangeQuery(0, 30, fault)} :
                 IF oneOffs.err # Nil
                 THEN /\ resp' = MenuPass("5", NoAnswer,
                                          "failed to get upcoming transactions", <<>>)
                      /\ req' = NoRequest
                 ELSE /\ req' = [op |-> "5", fault |-> fault, pc |-> "GetUpcomingTransactions",
                                 oneOffs |-> oneOffs.rows]
                      /\ resp' = resp
       \/ /\ req.op = "5" /\ req.fault = fault /\ req.pc = "GetUpcomingTransactions"
          /\ \E upcoming \in {LoadTransactions(req.oneOffs, 0, 30, fault).err} :
                 resp' = MenuPass("5", NoAnswer,
                                  IF upcoming # Nil THEN "failed to get upcoming transactions"
                                  ELSE Nil, <<>>)
          /\ req' = NoRequest
    /\ UNCHANGED <<expandVars, storeVars>>

\* case "6": the current balance is read, which returns no error, and
\* printed; balanceStr is the answer to the prompt for the new balance.
updateStartingBalance(balanceStr, fault) ==
    /\ phase = "menu"
    /\ \/ /\ req = NoRequest
          /\ req' = [op |-> "6", fault |-> fault, pc |-> "getUserInput",
                     starting |-> GetStartingBalance(GetSetting(setting, fault)).value]
          /\ resp' = resp
          /\ UNCHANGED storeVars
       \/ /\ req.op = "6" /\ req.fault = fault /\ req.pc = "getUserInput"
          /\ \E balance \in {ParseFloat(balanceStr)} :
                 IF ~balance.ok
                 THEN /\ resp' = MenuPass("6", NoAnswer, "invalid balance", <<>>)
                      /\ UNCHANGED storeVars
                 ELSE IF fault = "UpdateSetting"
                 THEN /\ resp' = MenuPass("6", NoAnswer, "failed to save starting balance",
                                          <<>>)
                      /\ UNCHANGED storeVars
                 ELSE /\ setting' = [Valid |-> TRUE, Value |-> FloatToCents(balance.value)]
                      /\ resp' = MenuPass("6", NoAnswer, Nil, <<>>)
                      /\ UNCHANGED <<transactions, recurrings, nextID, today>>
          /\ req' = NoRequest
    /\ UNCHANGED expandVars

\* The int that `id, _ := strconv.Atoi(text)` leaves in id: the number
\* written, 0 for a text that is no number, and the largest or smallest int
\* for a number out of range.  [neg, mag]
AtoiValue(text, bits) ==
    LET signed == Len(text) > 0 /\ text[1] \in {"+", "-"}
        from   == IF signed THEN 2 ELSE 1
        digits == from <= Len(text) /\ \A i \in from..Len(text) : DigitValue(text[i]) >= 0
        n      == Atoi(text, bits)
    IN  IF n.ok THEN [neg |-> n.neg, mag |-> n.mag]
        ELSE IF ~digits THEN [neg |-> FALSE, mag |-> LZero]
        ELSE IF text[1] = "-" THEN [neg |-> TRUE, mag |-> LPow2(bits - 1)]
        ELSE [neg |-> FALSE, mag |-> LSub(LPow2(bits - 1), LFromInt(1))]

\* case "7": manageRecurring with `choice` typed in the recurring menu.  List
\* ("1") reads the series; Add ("2") asks for the series `in`; Delete ("3")
\* asks for an id, idStr; Toggle ("4") asks for an id and for activeStr; any
\* other choice cancels.  bits is the size of int of the build, fault the
\* statement that fails.
mainLoopRecurring(choice, in, idStr, activeStr, bits, fault) ==
    /\ phase = "menu" /\ req = NoRequest
    /\ CASE choice = "1" ->
              /\ \E rs \in {Query("ListRecurring", ListRecurring(recurrings), fault)} :
                     resp' = MenuPass("7", NoAnswer, rs.err, <<>>)
              /\ UNCHANGED <<expandVars, req, storeVars>>
         [] choice = "2" -> manageRecurring(in)
         [] choice = "3" ->
              /\ \E id \in {Int32(AtoiValue(idStr, bits))} :
                     IF fault = "DeleteRecurring"
                     THEN /\ resp' = MenuPass("7", Answer(idStr),
                                              StoreError("DeleteRecurring"), <<>>)
                          /\ recurrings' = recurrings
                     ELSE /\ resp' = MenuPass("7", Answer(idStr), Nil, <<>>)
                          /\ recurrings' = SelectSeq(recurrings, LAMBDA r : r.ID # id)
              /\ UNCHANGED <<expandVars, req, transactions, setting, nextID, today>>
         [] choice = "4" ->
              /\ \E id \in {Int32(AtoiValue(idStr, bits))},
                    active \in {ToLowerTrimSpace(activeStr) \in {"y", "yes"}} :
                     IF fault = "SetRecurringActive"
                     THEN /\ resp' = MenuPass("7", Answer(idStr),
                                              StoreError("SetRecurringActive"), <<>>)
                          /\ recurrings' = recurrings
                     ELSE /\ resp' = MenuPass("7", Answer(idStr), Nil, <<>>)
                          /\ recurrings' = [i \in 1..Len(recurrings) |->
                                               IF recurrings[i].ID = id
                                               THEN [recurrings[i] EXCEPT !.Active = active]
                                               ELSE recurrings[i]]
              /\ UNCHANGED <<expandVars, req, transactions, setting, nextID, today>>
         [] OTHER ->
              /\ resp' = MenuPass("7", NoAnswer, Nil, <<>>)
              /\ UNCHANGED <<expandVars, req, storeVars>>

\* case "8".
mainLoopExit ==
    /\ phase = "menu" /\ req = NoRequest
    /\ phase' = "exited"
    /\ resp' = MenuPass("8", NoAnswer, Nil, <<>>)
    /\ UNCHANGED <<series, winA, winB, winC, outAC, outAB, outBC, storeVars, req>>

\* default: a choice that is none of "1" to "8".
mainLoopDefault(choice) ==
    /\ phase = "menu" /\ req = NoRequest
    /\ choice \notin {"1", "2", "3", "4", "5", "6", "7", "8"}
    /\ resp' = MenuPass(choice, NoAnswer, Nil, <<>>)
    /\ UNCHANGED <<expandVars, req, storeVars>>

\* What Run leaves behind when it has entered mainLoop or returned before it.
RunResult(err) == [op |-> "Run", err |-> err]

\* Run up to the prompt or to mainLoop: the starting balance is read; when it
\* is 0 it is asked for, and otherwise it is printed and the menu follows.
Run(fault) ==
    /\ phase = "start" /\ req = NoRequest
    /\ \E startingBalance \in {GetStartingBalance(GetSetting(setting, fault))} :
           IF startingBalance.err # Nil
           THEN /\ phase' = "failed"
                /\ resp' = RunResult("failed to get starting balance")
                /\ req' = req
           ELSE IF startingBalance.value = FZero
           THEN /\ phase' = phase
                /\ resp' = resp
                /\ req' = [op |-> "setupStartingBalance", pc |-> "getUserInput"]
           ELSE /\ phase' = "menu"
                /\ resp' = RunResult(Nil)
                /\ req' = req
    /\ UNCHANGED <<series, winA, winB, winC, outAC, outAB, outBC, storeVars>>

\* setupStartingBalance: balanceStr is the answer to the prompt; an answer
\* that is no number counts as 0.  The balance is stored, and mainLoop is
\* entered unless the store refused it.
setupStartingBalance(balanceStr, fault) ==
    /\ phase = "start" /\ req.op = "setupStartingBalance"
    /\ \E parsed \in {ParseFloat(balanceStr)} :
           IF fault = "UpdateSetting"
           THEN /\ phase' = "failed"
                /\ resp' = RunResult(StoreError("UpdateSetting"))
                /\ UNCHANGED storeVars
           ELSE /\ setting' = [Valid |-> TRUE,
                               Value |-> FloatToCents(IF parsed.ok THEN parsed.value
                                                      ELSE FZero)]
                /\ phase' = "menu"
                /\ resp' = RunResult(Nil)
                /\ UNCHANGED <<transactions, recurrings, nextID, today>>
    /\ req' = NoRequest
    /\ UNCHANGED <<series, winA, winB, winC, outAC, outAB, outBC>>

\* The answers typed: dates in both notations and 13/1/2024;
\* amounts; ids, 2147483649 = 2^31 + 1 and 4294967296 = 2^32 among them.
DateAnswers ==
    {<<"2", "0", "2", "4", "-", "0", "1", "-", "0", "1">>,
     <<"1", "/", "1", "/", "2", "0", "2", "4">>,
     <<"1", "3", "/", "1", "/", "2", "0", "2", "4">>}
AmountAnswers == {<<"0", ".", "2">>, <<"$", "5">>}
IdAnswers ==
    {<<"0">>, <<"1">>, <<"2">>, <<"-", "1">>, <<"x">>, <<>>,
     <<"2", "1", "4", "7", "4", "8", "3", "6", "4", "9">>,
     <<"4", "2", "9", "4", "9", "6", "7", "2", "9", "6">>}
Choices == {"9", ""}

\* The CLI is started on an empty store.
InitCli ==
    /\ series = MkRecurring(0, "", "income", 0, 0, "weekly", Null, Null, NullDate, FALSE)
    /\ winA = 0 /\ winB = 0 /\ winC = 0
    /\ outAC = <<>> /\ outAB = <<>> /\ outBC = <<>>
    /\ phase = "start"
    /\ transactions = <<>> /\ recurrings = <<>>
    /\ setting = [Valid |-> FALSE, Value |-> 0]
    /\ nextID = [tx |-> 1, rec |-> 1]
    /\ today \in Todays
    /\ resp = [op |-> "none"]
    /\ req = NoRequest

\* The ids and the answers to "Active? (y/n)" typed in the recurring menu,
\* 4294967297 = 2^32 + 1 among the ids.
SeriesIdAnswers ==
    {<<"1">>, <<"x">>, <<"4", "2", "9", "4", "9", "6", "7", "2", "9", "7">>}
ActiveAnswers == {"y", "n"}

\* The series entered in the CLI.
CliSeries == {r \in LedgerRecurringInputs : r.Description \in {"rent", "news"}}

\* The writes of the API server on the store the CLI works on: the seven
\* writes its routes offer.
ServerWrite ==
    \/ SetStartingBalance(CentsToFloat(20))
    \/ /\ nextID.tx <= MaxEntered
       /\ AddIncome(today, CentsToFloat(20), "gift")
    \/ /\ nextID.tx <= MaxEntered
       /\ AddExpense(today + 1, CentsToFloat(30), "apple")
    \/ DeleteTransaction(1)
    \/ \E in \in {r \in CliSeries : r.Description = "rent"} : CreateRecurringSimple(in)
    \/ \E active \in BOOLEAN : SetRecurringActive(1, active)
    \/ DeleteRecurring(1)

NextCli ==
    \/ \E f \in {NoFault, "GetSetting"} : Run(f)
    \/ \E b \in AmountAnswers, f \in {NoFault, "UpdateSetting"} : setupStartingBalance(b, f)
    \/ \E d \in DateAnswers, a \in AmountAnswers, f \in {NoFault, "CreateTransaction"} :
           addIncome(d, a, "gift", f)
    \/ addExpense(<<"1", "/", "2", "/", "2", "0", "2", "4">>, <<"0", ".", "3">>,
                  "apple", NoFault)
    \/ \E f \in {NoFault, "GetTransactionsByDateRange", "ListActiveRecurring"} :
           viewTransactions(f)
    \/ \E id \in IdAnswers, bits \in IntSizes : deleteTransaction(id, bits, NoFault)
    \/ \E f \in {"GetTransactionsByDateRange", "GetAllTransactions", "DeleteTransaction"} :
           deleteTransaction(<<"1">>, 64, f)
    \/ \E f \in {NoFault, "GetAllTransactions", "GetTransactionsByDateRange"} :
           generateForecast(f)
    \/ \E b \in AmountAnswers, f \in {NoFault, "UpdateSetting"} : updateStartingBalance(b, f)
    \/ \E c \in {"1", "5", ""}, f \in {NoFault, "ListRecurring"} :
           mainLoopRecurring(c, <<>>, <<>>, "", 64, f)
    \/ \E in \in CliSeries : mainLoopRecurring("2", in, <<>>, "", 64, NoFault)
    \/ \E id \in SeriesIdAnswers, bits \in IntSizes, f \in {NoFault, "DeleteRecurring"} :
           mainLoopRecurring("3", <<>>, id, "", bits, f)
    \/ \E id \in SeriesIdAnswers, a \in ActiveAnswers, bits \in IntSizes,
          f \in {NoFault, "SetRecurringActive"} :
           mainLoopRecurring("4", <<>>, id, a, bits, f)
    \/ mainLoopExit
    \/ \E c \in Choices : mainLoopDefault(c)
    \/ ServerWrite

SpecCli == InitCli /\ [][NextCli]_vars

\* The ids typed that are negative or no number.
BadIdAnswers == {<<"-", "1">>, <<"x">>, <<>>}

\* C30: the main loop ends only on choice 8; an error returned by a menu
\* action is printed and the menu is shown again; a choice that is none of 1
\* to 8 is rejected and the menu is shown again; in the delete action an id of
\* 0 cancels, a negative or non-numeric id is an error, and DeleteTransaction
\* is never called with an id <= 0.
C30_LoopEndsOnlyOnExit ==
    [][ /\ (phase' = "exited" /\ phase # "exited") =>
               (phase = "menu" /\ resp'.op = "mainLoop" /\ resp'.choice = "8")
        /\ (resp'.op = "mainLoop" /\ resp' # resp) =>
               /\ resp'.err # Nil =>
                      (phase' = "menu" /\ resp'.printed = "Error: " \o resp'.err)
               /\ resp'.choice \notin {"1", "2", "3", "4", "5", "6", "7", "8"} =>
                      /\ phase' = "menu"
                      /\ resp'.printed = "Invalid choice. Please try again."
                      /\ resp'.calls = <<>>
               /\ (resp'.choice = "4" /\ resp'.answer = Answer(<<"0">>)) =>
                      (resp'.err = Nil /\ resp'.calls = <<>>)
               /\ (resp'.choice = "4" /\ resp'.answer.asked
                       /\ resp'.answer.text \in BadIdAnswers) =>
                      (resp'.err = "invalid ID" /\ resp'.calls = <<>>)
               /\ \A i \in 1..Len(resp'.calls) : resp'.calls[i] > 0
      ]_vars

====
